---- MODULE Spec2Model ----
(***************************************************************************)
(* Place registration backend: Express routes, auth middleware, the        *)
(* persistence layer, the Google Places provider client, the OpenAI        *)
(* generation client and the AssetMapper normalisation functions.          *)
(*                                                                         *)
(* Encoding of JavaScript values                                           *)
(*   - an optional value is a sequence of length 0 (undefined / null) or 1 *)
(*     (the value): None, Some(v);                                         *)
(*   - an optional string is the string itself or Undefined;               *)
(*   - an optional boolean flag is one of the strings of FlagVals;         *)
(*   - a text (a completion, a description) is a sequence of tokens, the   *)
(*     empty text is <<>>;                                                 *)
(*   - a photo name is the sequence of its "/"-separated segments, the     *)
(*     absent or empty name is <<>>;                                       *)
(*   - a pixel width is a natural number, 0 standing for an absent width   *)
(*     (JavaScript treats both as falsy).                                  *)
(***************************************************************************)
EXTENDS Integers, Sequences, FiniteSets, TLC

\* ------------------------------------------------------------------ bounds
MaxInFlight == 2      \* requests being served at the same time
MaxPhotos == 2        \* photos in one raw provider record
MaxWidth == 1200      \* largest source photo width tried
MaxPeriods == 2       \* opening-hours periods in one raw provider record

\* ------------------------------------------------------------- JS values
Undefined == "undefined"
Null == "null"
None == <<>>
Some(v) == <<v>>
IsSome(o) == Len(o) > 0
Val(o) == o[1]

Min(a, b) == IF a < b THEN a ELSE b

FlagVals == {"true", "false", "null", "undefined"}

\* x ?? undefined
NullishToUndefined(x) == IF x \in {Null, Undefined} THEN Undefined ELSE x

\* -------------------------------------------------------- photo resolver
PhotoWidthCap == 800

\* GoogleMapsService.getPhotoUrl (Places API New): the URL carries the
\* maxwidth and the last segment of the photo name; it throws when the name
\* is empty or its last segment is empty.
getPhotoUrl(photoName, maxWidth) ==
    IF photoName = <<>> \/ photoName[Len(photoName)] = ""
    THEN [threw |-> TRUE, maxwidth |-> 0, photo_reference |-> ""]
    ELSE [threw |-> FALSE, maxwidth |-> maxWidth,
          photo_reference |-> photoName[Len(photoName)]]

\* GoogleMapsService.getPhotoUrl (legacy Places API): pure string template.
getPhotoUrlLegacy(photoReference, maxWidth) ==
    [maxwidth |-> maxWidth, photoreference |-> photoReference]

\* ------------------------------------------------- AssetMapper (new schema)
\* A resolver width that is not capped.
ResolverWidthUncapped(widthPx) == widthPx

\* The width handed to the resolver for one photo.
ResolverWidth(widthPx) == Min(widthPx, PhotoWidthCap)

\* One element of processedPhotos: None when the photo is dropped.
ProcessPhoto(photo, googleMapsService) ==
    IF photo.name = <<>> \/ photo.widthPx = 0
    THEN [threw |-> FALSE, photo |-> None]
    ELSE LET url == IF googleMapsService
                    THEN getPhotoUrl(photo.name, ResolverWidth(photo.widthPx))
                    ELSE [threw |-> FALSE, maxwidth |-> 0, photo_reference |-> ""]
         IN [threw |-> url.threw,
             photo |-> Some([name |-> photo.name,
                             widthPx |-> photo.widthPx,
                             heightPx |-> IF IsSome(photo.heightPx)
                                          THEN Val(photo.heightPx) ELSE 0,
                             photoUrl |-> IF googleMapsService /\ ~url.threw
                                          THEN Some([maxwidth |-> url.maxwidth,
                                                     photo_reference |-> url.photo_reference])
                                          ELSE None])]

\* (await Promise.all(processedPhotos)).filter(p => p !== undefined)
RECURSIVE KeepDefined(_)
KeepDefined(ps) ==
    IF ps = <<>> THEN <<>>
    ELSE IF IsSome(Head(ps).photo)
         THEN <<Val(Head(ps).photo)>> \o KeepDefined(Tail(ps))
         ELSE KeepDefined(Tail(ps))

\* One option group: every flag mapped with ?? undefined.
MapOptions(group) ==
    IF IsSome(group)
    THEN Some([f \in DOMAIN Val(group) |-> NullishToUndefined(Val(group)[f])])
    ELSE None

\* displayName: place.displayName ? {text ?? "", languageCode ?? "en"} : undefined
MapDisplayName(displayName) ==
    IF IsSome(displayName)
    THEN Some([text |-> IF Val(displayName).text \in {Undefined, Null}
                        THEN "" ELSE Val(displayName).text,
               languageCode |-> IF Val(displayName).languageCode \in {Undefined, Null}
                                THEN "en" ELSE Val(displayName).languageCode])
    ELSE None

\* One end of an opening-hours period:
\*   {day: end?.day ?? 0, hour: end?.hour ?? 0, minute: end?.minute ?? 0}
MapPeriodEnd(end) ==
    [f \in {"day", "hour", "minute"} |->
        IF IsSome(end) /\ IsSome(Val(end)[f]) THEN Val(Val(end)[f]) ELSE 0]

\* The body of mapGooglePlaceToAsset past its location check: the photos are
\* resolved, then the Asset is assembled around the location loc.
MapPlaceFields(place, loc, aiDescription, aiTags, landingPage, googleMapsService) ==
    LET processedPhotos ==
            IF IsSome(place.photos)
            THEN [i \in 1..Len(Val(place.photos)) |->
                     ProcessPhoto(Val(place.photos)[i], googleMapsService)]
            ELSE <<>>
        photoThrew == \E i \in 1..Len(processedPhotos) : processedPhotos[i].threw
    IN IF photoThrew
       THEN [threw |-> TRUE, error |-> "Photo name is required", asset |-> None]
       ELSE [threw |-> FALSE, error |-> "",
             asset |-> Some(
               [externalId |-> IF place.id \in {Null, Undefined} THEN "" ELSE place.id,
                displayName |-> MapDisplayName(place.displayName),
                formattedAddress |-> NullishToUndefined(place.formattedAddress),
                googleMapsUri |-> NullishToUndefined(place.googleMapsUri),
                \* periods?.map(...) ?? []
                regularOpeningHours |->
                    IF IsSome(place.regularOpeningHours)
                    THEN LET periods == Val(place.regularOpeningHours).periods
                         IN Some([periods |->
                                IF IsSome(periods)
                                THEN [i \in 1..Len(Val(periods)) |->
                                        [open |-> MapPeriodEnd(Val(periods)[i].open),
                                         close |-> MapPeriodEnd(Val(periods)[i].close)]]
                                ELSE <<>>])
                    ELSE None,
                \* place.types?.[0] ?? undefined
                primaryType |-> IF IsSome(place.types) /\ Len(Val(place.types)) > 0
                                THEN Val(place.types)[1] ELSE Undefined,
                types |-> place.types,
                \* place.priceLevel && place.priceLevel !== "PRICE_LEVEL_UNSPECIFIED"
                \*    ? place.priceLevel : undefined
                priceLevel |-> IF /\ place.priceLevel \notin {Undefined, Null, ""}
                                  /\ place.priceLevel # "PRICE_LEVEL_UNSPECIFIED"
                               THEN place.priceLevel ELSE Undefined,
                location |-> [latitude |-> IF IsSome(loc.latitude)
                                           THEN Val(loc.latitude) ELSE 0,
                              longitude |-> IF IsSome(loc.longitude)
                                            THEN Val(loc.longitude) ELSE 0],
                photos |-> IF IsSome(place.photos)
                           THEN Some(KeepDefined(processedPhotos)) ELSE None,
                parkingOptions |-> MapOptions(place.parkingOptions),
                paymentOptions |-> MapOptions(place.paymentOptions),
                accessibilityOptions |-> MapOptions(place.accessibilityOptions),
                aiDescription |-> aiDescription,
                aiTags |-> aiTags,
                aiLandingPage |-> landingPage])]

\* A mapper that maps a record without a location instead of rejecting it.
mapGooglePlaceToAssetUnchecked(place, aiDescription, aiTags, landingPage, googleMapsService) ==
    MapPlaceFields(place,
                   IF IsSome(place.location) THEN Val(place.location)
                   ELSE [latitude |-> None, longitude |-> None],
                   aiDescription, aiTags, landingPage, googleMapsService)

\* AssetMapper.mapGooglePlaceToAsset
mapGooglePlaceToAsset(place, aiDescription, aiTags, landingPage, googleMapsService) ==
    IF ~IsSome(place.location)
    THEN [threw |-> TRUE, error |-> "Place location is missing", asset |-> None]
    ELSE MapPlaceFields(place, Val(place.location), aiDescription, aiTags,
                        landingPage, googleMapsService)

\* ---------------------------------------------- AssetMapper (legacy schema)
MapLegacyPhoto(photo, googleMapsService) ==
    [photoReference |-> photo.photo_reference,
     height |-> photo.height,
     width |-> photo.width,
     photoUri |-> IF googleMapsService /\ photo.photo_reference # ""
                  \* Math.min(photo.width || 800, 800)
                  THEN Some(getPhotoUrlLegacy(photo.photo_reference,
                                Min(IF photo.width = 0 THEN PhotoWidthCap
                                    ELSE photo.width, PhotoWidthCap)))
                  ELSE None]

\* One end of a legacy opening-hours period: {day: end.day, time: end.time || ""}
MapLegacyPeriodEnd(end) ==
    [day |-> end.day, time |-> IF end.time = Undefined THEN "" ELSE end.time]

\* AssetMapper.toAsset; reading period.open.day of a period without an open
\* end is a TypeError.
toAsset(place, aiDescription, aiTags, googleMapsService) ==
    IF ~IsSome(place.geometry) \/ ~IsSome(Val(place.geometry).location)
    THEN [threw |-> TRUE, error |-> "Place geometry or location is missing",
          asset |-> None]
    ELSE IF /\ IsSome(place.opening_hours)
            /\ IsSome(Val(place.opening_hours).periods)
            /\ \E i \in 1..Len(Val(Val(place.opening_hours).periods)) :
                  ~IsSome(Val(Val(place.opening_hours).periods)[i].open)
    THEN [threw |-> TRUE, error |-> "TypeError", asset |-> None]
    ELSE [threw |-> FALSE, error |-> "",
          asset |-> Some(
            [placeId |-> place.place_id,
             geometry |-> [location |-> Val(Val(place.geometry).location)],
             photos |-> IF IsSome(place.photos)
                        THEN [i \in 1..Len(Val(place.photos)) |->
                                 MapLegacyPhoto(Val(place.photos)[i], googleMapsService)]
                        ELSE <<>>,
             \* periods: place.opening_hours.periods?.map(...)
             openingHours |->
                 IF IsSome(place.opening_hours)
                 THEN LET periods == Val(place.opening_hours).periods
                      IN Some([periods |->
                             IF IsSome(periods)
                             THEN Some([i \in 1..Len(Val(periods)) |->
                                     [open |-> MapLegacyPeriodEnd(Val(Val(periods)[i].open)),
                                      close |-> IF IsSome(Val(periods)[i].close)
                                                THEN Some(MapLegacyPeriodEnd(
                                                         Val(Val(periods)[i].close)))
                                                ELSE None]])
                             ELSE None])
                 ELSE None,
             priceLevel |-> place.price_level,
             \* Boolean(place.wheelchair_accessible_entrance)
             wheelchairAccessibleEntrance |->
                 IF place.wheelchair_accessible_entrance = "true" THEN "true" ELSE "false",
             aiDescription |-> aiDescription,
             aiTags |-> aiTags])]

\* =================================================================== server
\* The place ids the provider knows, and the ones clients ask for.
PlaceIds == {"p1", "p2"}
RequestIds == {"p1"}

Categories == {"Cultural", "Entertainment", "Commerce", "Transportation",
               "PublicServices", "Default"}

VARIABLES
    app,        \* which app.ts is running
    proc,       \* the server process: its environment and how far start-up got
    store,      \* the documents of the places / assets collection
    reqs,       \* the requests being served, by connection slot
    registered, \* place ids whose registration has been answered with success
    mapperIn,   \* input of a stand-alone run of the mapper or of generateAiContent
    mapperOut,  \* its result
    users,      \* the documents of the users collection / the identity provider's accounts
    authReqs,   \* the /auth requests being served, by connection slot
    REQUEST_CONFIGS,  \* PromptManager's own entries of the request-type table
    promptOut   \* the last PromptManager call and its result

vars == <<app, proc, store, reqs, registered, mapperIn, mapperOut,
          users, authReqs, REQUEST_CONFIGS, promptOut>>

authVars == <<users, authReqs>>

promptVars == <<REQUEST_CONFIGS, promptOut>>

Slots == 1..MaxInFlight

\* Internal _id values: one not held by any document or request is fresh.
Ids == 1..(Cardinality(PlaceIds) + MaxInFlight)

\* -------------------------------------------------------------- requests
AuthHeaders ==
    {[scheme |-> "none", token |-> ""],
     [scheme |-> "Basic", token |-> "consumer"],
     [scheme |-> "Bearer", token |-> "garbage"],
     [scheme |-> "Bearer", token |-> "consumer"],
     [scheme |-> "Bearer", token |-> "admin"]}

NoAuth == [scheme |-> "none", token |-> ""]

HttpRequest(mount, method, path, auth, placeId, query) ==
    [mount |-> mount, method |-> method, path |-> path, auth |-> auth,
     placeId |-> placeId, query |-> query]

\* The headers tried on a register request (the role plays no part there).
RegisterHeaders == AuthHeaders \ {[scheme |-> "Bearer", token |-> "admin"]}

\* The requests tried against each deployment.
Requests(a) ==
    IF a = "places"
    THEN {HttpRequest("places", "GET", p, NoAuth, Undefined, "none") : p \in RequestIds}
         \cup {HttpRequest("places", "GET", "search", NoAuth, Undefined, q) : q \in {"none",
                 "query", "latlng", "lat"}}
         \cup {HttpRequest("places", "POST", "register", h, p, "none") :
                  h \in RegisterHeaders, p \in RequestIds \cup {Undefined}}
         \cup {HttpRequest("places", "DELETE", p, h, Undefined, "none") :
                  h \in AuthHeaders, p \in RequestIds}
    ELSE IF a = "gplaces"
    THEN {HttpRequest("gplaces", "POST", "register", h, p, "none") :
                  h \in RegisterHeaders, p \in RequestIds \cup {Undefined}}
    ELSE {HttpRequest("gplace", "POST", "register", h, p, "none") :
                  h \in RegisterHeaders, p \in RequestIds \cup {Undefined}}
         \cup {HttpRequest("asset", "GET", p, NoAuth, Undefined, "none") : p \in RequestIds}

NoBody == [error |-> "", errors |-> <<>>, doc |-> None, list |-> FALSE, message |-> ""]
ErrorBody(msg) == [NoBody EXCEPT !.error = msg]
DocBody(d) == [NoBody EXCEPT !.doc = Some(d)]

IdleReq ==
    [pc |-> "idle", http |-> HttpRequest("", "", "", NoAuth, Undefined, "none"),
     handler |-> "", user |-> "none", nextCalled |-> FALSE, verifyThrew |-> FALSE,
     status |-> 0, body |-> NoBody, sent |-> 0,
     after |-> FALSE, dbOps |-> 0, writes |-> 0, provCalls |-> 0, genCalls |-> 0,
     env |-> {}, errs |-> {}, raw |-> None, held |-> None,
     aiDescription |-> <<>>, aiTags |-> <<>>, category |-> Undefined,
     completion |-> None]

\* res.status(code).json(body): the request is answered.
Respond(r, code, body) ==
    [r EXCEPT !.pc = "done", !.status = code, !.body = body, !.sent = r.sent + 1]

\* ---------------------------------------------------------------- routing
\* Routes in registration order; Express answers with the first that matches.
Routes ==
    <<[mount |-> "places", method |-> "GET", pattern |-> ":placeId", handler |-> "getPlace"],
      [mount |-> "places", method |-> "POST", pattern |-> "register", handler |-> "registerPlace"],
      [mount |-> "places", method |-> "GET", pattern |-> "search", handler |-> "search"],
      [mount |-> "places", method |-> "DELETE", pattern |-> ":placeId", handler |-> "deletePlace"],
      [mount |-> "gplace", method |-> "POST", pattern |-> "register", handler |-> "registerAsset"],
      [mount |-> "gplaces", method |-> "POST", pattern |-> "register",
              handler |-> "registerGPlace"],
      [mount |-> "asset", method |-> "GET", pattern |-> ":externalId", handler |-> "getAsset"]>>

Matches(route, http) ==
    /\ route.mount = http.mount
    /\ route.method = http.method
    /\ (route.pattern \in {":placeId", ":externalId"} \/ route.pattern = http.path)

\* The handler Express dispatches the request to.
Dispatch(http) ==
    IF \E i \in 1..Len(Routes) : Matches(Routes[i], http)
    THEN LET first == CHOOSE i \in 1..Len(Routes) :
                         /\ Matches(Routes[i], http)
                         /\ \A j \in 1..(i - 1) : ~Matches(Routes[j], http)
         IN Routes[first].handler
    ELSE "notFound"

\* ------------------------------------------------------------- middleware
\* A requireAdmin that lets every authenticated user through.
requireAnyUser(user) ==
    IF user = "none" THEN [status |-> 401, error |-> "Authentication required."]
    ELSE [status |-> 0, error |-> ""]

\* JwtUtils.verifyToken / FirebaseAuthService.verifyToken: the decoded role,
\* or "null" for a token that does not verify.
verifyToken(token) ==
    IF token \in {"consumer", "admin"} THEN token ELSE "null"

\* An authenticate that trusts the token's own claim when its verification
\* throws.
authenticateUncaught(auth, threw) ==
    IF auth.scheme # "Bearer"
    THEN [status |-> 401, error |-> "Access denied. No token provided.", user |-> "none"]
    ELSE IF ~threw /\ verifyToken(auth.token) = "null"
    THEN [status |-> 401, error |-> "Invalid token.", user |-> "none"]
    ELSE [status |-> 0, error |-> "",
          user |-> IF auth.token = "admin" THEN "admin" ELSE "consumer"]

\* authenticate: the status it answers with (0 when it calls next) and req.user.
authenticate(auth, threw) ==
    IF auth.scheme # "Bearer"
    THEN [status |-> 401, error |-> "Access denied. No token provided.", user |-> "none"]
    ELSE IF threw
    THEN [status |-> 401, error |-> "Invalid token.", user |-> "none"]
    ELSE IF verifyToken(auth.token) = "null"
    THEN [status |-> 401, error |-> "Invalid token.", user |-> "none"]
    ELSE [status |-> 0, error |-> "",
          user |-> IF verifyToken(auth.token) = "admin" THEN "admin" ELSE "consumer"]

\* requireAdmin: the status it answers with, 0 when it calls next.
requireAdmin(user) ==
    IF user = "none" THEN [status |-> 401, error |-> "Authentication required."]
    ELSE IF user # "admin"
    THEN [status |-> 403, error |-> "Access denied. Admin privileges required."]
    ELSE [status |-> 0, error |-> ""]

\* PlaceIdValidator.validate: the failing fields.
PlaceIdValidator(data) ==
    IF data.placeId \in {Undefined, Null, ""} THEN <<"placeId">> ELSE <<>>

\* ------------------------------------------------------------ persistence
\* Model.findOne({key: v}) on the collection: PlaceDAO.findByPlaceId for the
\* places collection, AssetDAO.findByExternalId for the assets collection.
KeyOf(d) == IF app \in {"places", "gplaces"} THEN d.placeId ELSE d.externalId

\* A lookup that only sees documents whose AI description is filled in.
findOneWithContent(docs, v) == IF \E d \in docs : KeyOf(d) = v /\ d.aiDescription # <<>> THEN Some(CHOOSE d \in docs : KeyOf(d) = v /\ d.aiDescription # <<>>) ELSE None

findOne(docs, v) ==
    IF \E d \in docs : KeyOf(d) = v
    THEN Some(CHOOSE d \in docs : KeyOf(d) = v)
    ELSE None

findByPlaceId(docs, placeId) == findOne(docs, placeId)

findByExternalId(docs, externalId) == findOne(docs, externalId)

\* The documents and requests that hold an internal id.
UsedIds ==
    {d._id : d \in store}
    \cup {Val(reqs[s].held)._id : s \in {t \in Slots : IsSome(reqs[t].held)}}

FreshId == CHOOSE i \in Ids : i \notin UsedIds /\ \A j \in Ids : j \notin UsedIds => i <= j

\* A required String path of a schema holds a non-empty string.
RequiredString(v) == v \notin {"", Undefined, Null}

\* Document validation on save: the required key (externalId / placeId), and
\* for an Asset the other required paths of AssetSchema.
PassesValidation(data) ==
    /\ RequiredString(KeyOf(data))
    /\ app = "gplace" =>
          /\ IsSome(data.displayName)
          /\ RequiredString(Val(data.displayName).text)
          /\ RequiredString(Val(data.displayName).languageCode)
          /\ RequiredString(data.formattedAddress)
          /\ RequiredString(data.googleMapsUri)
          /\ RequiredString(data.primaryType)

\* A save that replaces the stored document with the same key.
saveUpsert(docs, data) == LET doc == [data EXCEPT !._id = FreshId] IN [threw |-> FALSE, error |-> "", docs |-> {d \in docs : KeyOf(d) # KeyOf(data)} \cup {doc}, doc |-> Some(doc)]

\* new Model(data).save(): the document as stored, or the error thrown.
save(docs, data) ==
    IF ~PassesValidation(data)
    THEN [threw |-> TRUE, error |-> "validation", docs |-> docs, doc |-> None]
    \* the unique index on the key
    ELSE IF \E d \in docs : KeyOf(d) = KeyOf(data)
    THEN [threw |-> TRUE, error |-> "duplicate", docs |-> docs, doc |-> None]
    ELSE LET doc == [data EXCEPT !._id = FreshId]
         IN [threw |-> FALSE, error |-> "", docs |-> docs \cup {doc}, doc |-> Some(doc)]

\* MongoDataAccessObject.update: findByIdAndUpdate(id, {$set: data}, {new: true})
\* with data = the AI fields of the request.
update(docs, id, r) ==
    IF \E d \in docs : d._id = id
    THEN LET old == CHOOSE d \in docs : d._id = id
             new == IF app = "places"
                    THEN [old EXCEPT !.aiDescription = r.aiDescription,
                                     !.aiTags = r.aiTags]
                    ELSE [old EXCEPT !.aiDescription = r.aiDescription,
                                     !.category = r.category]
         IN [docs |-> (docs \ {old}) \cup {new}, doc |-> Some(new)]
    ELSE [docs |-> docs, doc |-> None]

\* MongoDataAccessObject.delete: findByIdAndDelete(id)
delete(docs, id) == {d \in docs : d._id # id}

\* --------------------------------------------------------------- provider
PresentLocation == Some([latitude |-> Some(1), longitude |-> Some(2)])

\* A raw record of the Places API (New).
GooglePlace(id, location) ==
    [id |-> id, location |-> location, photos |-> None,
     displayName |-> Some([text |-> "Cafe", languageCode |-> "en"]),
     formattedAddress |-> "1 Main St",
     googleMapsUri |-> "maps/p",
     types |-> Some(<<"cafe">>),
     regularOpeningHours |-> None,
     priceLevel |-> Undefined,
     parkingOptions |-> None, paymentOptions |-> None, accessibilityOptions |-> None]

\* client.getPlace: throws, answers nothing, or answers a record whose id may
\* be the requested one, another one, or absent.
GetPlaceResponses(placeId) ==
    {[threw |-> TRUE, response |-> None], [threw |-> FALSE, response |-> None]}
    \cup {[threw |-> FALSE, response |-> Some(GooglePlace(id, loc))] :
             id \in PlaceIds \cup {Undefined}, loc \in {None, PresentLocation}}
    \* Records that lack one of the fields the asset schema requires.
    \cup {[threw |-> FALSE, response |-> Some(place)] : place \in
            {[GooglePlace("p1", PresentLocation) EXCEPT !.displayName = None],
             [GooglePlace("p1", PresentLocation) EXCEPT !.formattedAddress = Undefined],
             [GooglePlace("p1", PresentLocation) EXCEPT !.googleMapsUri = Undefined],
             [GooglePlace("p1", PresentLocation) EXCEPT !.types = None]}}

\* A getPlace that answers with a placeholder record instead of throwing.
getPlaceLenient(out) ==
    IF out.threw \/ ~IsSome(out.response)
    THEN [threw |-> FALSE, place |-> Some(GooglePlace("p1", PresentLocation))]
    ELSE [threw |-> FALSE, place |-> out.response]

\* GoogleMapsService.getPlace (Places API New)
getPlace(out) ==
    IF out.threw \/ ~IsSome(out.response)
    THEN [threw |-> TRUE, place |-> None]
    ELSE [threw |-> FALSE, place |-> out.response]

\* A raw record of the legacy Places API.
GooglePlaceDetails(place_id, geometry) ==
    [place_id |-> place_id, geometry |-> geometry, photos |-> None,
     opening_hours |-> None,
     price_level |-> None,
     wheelchair_accessible_entrance |-> Undefined]

PresentGeometry == Some([location |-> Some([lat |-> 1, lng |-> 2])])

PlaceDetailsResponses(placeId) ==
    {[threw |-> TRUE, response |-> None]}
    \cup {[threw |-> FALSE, response |-> Some(GooglePlaceDetails(id, g))] :
             id \in PlaceIds \cup {Undefined},
             g \in {None, Some([location |-> None]), PresentGeometry}}

\* GoogleMapsService.getEntity (legacy Places API): the transformed place.
getEntity(out, placeId) ==
    IF out.threw THEN [threw |-> TRUE, place |-> None]
    ELSE LET place == Val(out.response)
         IN IF ~IsSome(place.geometry) \/ ~IsSome(Val(place.geometry).location)
            THEN [threw |-> TRUE, place |-> None]
            ELSE [threw |-> FALSE,
                  place |-> Some([_id |-> 0,
                                  placeId |-> IF place.place_id \in {Undefined, Null, ""}
                                              THEN placeId ELSE place.place_id,
                                  aiDescription |-> <<>>,
                                  aiTags |-> <<>>])]

\* GoogleMapsService.getPlace of the gplaces API (legacy Places API): the raw
\* record, not transformed.
getPlaceDetails(out) ==
    IF out.threw THEN [threw |-> TRUE, place |-> None]
    ELSE [threw |-> FALSE, place |-> out.response]

\* ------------------------------------------------------------- generation
Whitespace == {" ", "\n"}

\* String.prototype.trim on a text
RECURSIVE TrimLeft(_)
TrimLeft(t) == IF t # <<>> /\ Head(t) \in Whitespace THEN TrimLeft(Tail(t)) ELSE t

RECURSIVE TrimRight(_)
TrimRight(t) ==
    IF t # <<>> /\ t[Len(t)] \in Whitespace THEN TrimRight(SubSeq(t, 1, Len(t) - 1)) ELSE t

Trim(t) == TrimRight(TrimLeft(t))

\* response.choices[0]?.message?.content?.trim() || ""
ContentOrEmpty(out) == IF IsSome(out.content) THEN Trim(Val(out.content)) ELSE <<>>

\* What client.chat.completions.create does: it throws, or answers with a
\* completion whose content may be missing.
ChatOutcomes(contents) ==
    {[threw |-> TRUE, content |-> None]}
    \cup {[threw |-> FALSE, content |-> c] : c \in contents}

DescriptionContents ==
    {None, Some(<<>>), Some(<<" ", "A", " ", "cafe", "\n">>)}

TagsContents ==
    {None, Some(<<>>), Some(<<" ", "cafe", ",", " ", ",", "cozy", "\n">>)}

\* OpenAIService.generateAssetDescription / generateDescription
generateAssetDescription(out) ==
    IF out.threw THEN [threw |-> TRUE, value |-> <<>>]
    ELSE [threw |-> FALSE, value |-> ContentOrEmpty(out)]

\* AssetAiContentService.generateAssetSummary: logs and rethrows.
generateAssetSummary(out) == generateAssetDescription(out)

\* tagsString.split(",")
RECURSIVE SplitComma(_, _)
SplitComma(t, piece) ==
    IF t = <<>> THEN <<piece>>
    ELSE IF Head(t) = "," THEN <<piece>> \o SplitComma(Tail(t), <<>>)
    ELSE SplitComma(Tail(t), Append(piece, Head(t)))

\* .map(tag => tag.trim()).filter(Boolean)
RECURSIVE TrimAndFilter(_)
TrimAndFilter(pieces) ==
    IF pieces = <<>> THEN <<>>
    ELSE IF Trim(Head(pieces)) = <<>> THEN TrimAndFilter(Tail(pieces))
    ELSE <<Trim(Head(pieces))>> \o TrimAndFilter(Tail(pieces))

\* OpenAIService.generateTags
generateTags(out) ==
    IF out.threw THEN [threw |-> TRUE, value |-> <<>>]
    ELSE [threw |-> FALSE, value |-> TrimAndFilter(SplitComma(ContentOrEmpty(out), <<>>))]

\* A joint generation that keeps the value of the call that succeeded.
generateAiContentLenient(d, t) == [threw |-> FALSE, description |-> generateAssetDescription(d).value, tags |-> generateTags(t).value]

\* AssetAiContentService.generateAiContent: Promise.all of the two calls
\* inside one try; the catch logs and the initial empty values are returned.
\* (DeepSeekService.generateAiContent has the same try / catch.)
generateAiContent(d, t) ==
    LET description == generateAssetDescription(d)
        tags == generateTags(t)
    IN IF description.threw \/ tags.threw
       THEN [threw |-> FALSE, description |-> <<>>, tags |-> <<>>]
       ELSE [threw |-> FALSE, description |-> description.value, tags |-> tags.value]

validCategories ==
    {"Cultural", "Entertainment", "Commerce", "Transportation", "PublicServices"}

\* A classification that hands the completion's first token through.
classifyUnvalidated(out) ==
    IF out.threw THEN "Default"
    ELSE IF ContentOrEmpty(out) = <<>> THEN "Default" ELSE ContentOrEmpty(out)[1]

\* OpenAIService.classifyAssetCategory
classifyAssetCategory(out) ==
    IF out.threw THEN "Default"
    ELSE LET category == ContentOrEmpty(out)
         IN IF ~(Len(category) = 1 /\ category[1] \in validCategories)
            THEN "Default" ELSE category[1]

\* AssetAiContentService.classifyCategory: logs and rethrows; there is
\* nothing to rethrow, classifyAssetCategory catches every error.
classifyCategory(out) == classifyAssetCategory(out)

\* ---------------------------------------------------------------- handlers
IsRegister(r) == r.handler \in {"registerPlace", "registerAsset", "registerGPlace"}

\* What the environment did to the request (a ghost of the handler).
Env(r, events) == [r EXCEPT !.env = r.env \cup events]

DbFailed(r) == Env(r, {"dbFail"})

\* A catch block that fetches the place once more after a provider failure.
RegisterFailureRetrying(r, why) == IF why = "provider" /\ r.provCalls < 2 THEN [r EXCEPT !.pc = "fetch", !.provCalls = r.provCalls + 1] ELSE Respond([r EXCEPT !.errs = r.errs \cup {why}], 500, ErrorBody("Failed to process place"))

\* A catch block that logs the error and returns without answering.
RegisterFailureSilent(r, why) == [r EXCEPT !.pc = "done", !.errs = r.errs \cup {why}]

\* The catch block of a register handler.
RegisterFailure(r, why) ==
    Respond([r EXCEPT !.errs = r.errs \cup {why}], 500,
            ErrorBody(IF r.handler = "registerAsset"
                      THEN "Failed to process place" ELSE "Failed to register place"))

\* The middleware chain and the synchronous start of the handler, up to its
\* first await.
Admit(http, threw) ==
    LET h == Dispatch(http)
        r0 == [IdleReq EXCEPT !.http = http, !.handler = h, !.verifyThrew = threw]
        a == authenticate(http.auth, threw)
        r1 == [r0 EXCEPT !.user = a.user, !.nextCalled = TRUE]
    IN CASE h \in {"registerPlace", "registerAsset", "registerGPlace"} ->
              IF a.status # 0 THEN Respond(r0, a.status, ErrorBody(a.error))
              ELSE IF PlaceIdValidator(http) # <<>>
              THEN Respond(r1, 400, [NoBody EXCEPT !.error = "Validation failed",
                                                   !.errors = PlaceIdValidator(http)])
              ELSE [r1 EXCEPT !.pc = "find", !.dbOps = 1,
                              !.after = (http.placeId \in registered)]
         [] h = "deletePlace" ->
              IF a.status # 0 THEN Respond(r0, a.status, ErrorBody(a.error))
              ELSE IF requireAdmin(a.user).status # 0
              THEN Respond(r1, requireAdmin(a.user).status,
                           ErrorBody(requireAdmin(a.user).error))
              ELSE [r1 EXCEPT !.pc = "delFind", !.dbOps = 1]
         [] h \in {"getPlace", "getAsset"} ->
              [r0 EXCEPT !.pc = "getFind", !.dbOps = 1]
         [] h = "search" ->
              IF http.query \in {"query", "latlng"}
              THEN [r0 EXCEPT !.pc = "search", !.provCalls = 1]
              ELSE Respond(r0, 400, ErrorBody("Invalid search parameters"))
         [] OTHER -> Respond(r0, 404, ErrorBody("Not Found"))

\* A request's step: its record changes, and a successful registration is
\* remembered.
Step(s, r) ==
    /\ reqs' = [reqs EXCEPT ![s] = r]
    /\ registered' =
          IF r.pc = "done" /\ IsRegister(r) /\ r.status \in {200, 201}
          THEN registered \cup {r.http.placeId} ELSE registered

\* ----------------------------------------------------------------- actions
\* A request arrives on a free connection.
Receive(s) ==
    /\ reqs[s].pc = "idle"
    /\ \E http \in Requests(app) :
         \E threw \in (IF http.auth.scheme = "Bearer" THEN BOOLEAN ELSE {FALSE}) :
            Step(s, Admit(http, threw))
    /\ UNCHANGED <<app, proc, store, mapperIn, mapperOut, authVars, promptVars>>

\* The existence check of a register handler returns.
FindDone(s) ==
    LET r == reqs[s] IN
    /\ r.pc = "find"
    /\ \E dbOk \in BOOLEAN :
         IF ~dbOk THEN Step(s, RegisterFailure(DbFailed(r), "db"))
         ELSE LET existingPlace ==
                      IF r.handler = "registerAsset"
                      THEN findByExternalId(store, r.http.placeId)
                      ELSE findByPlaceId(store, r.http.placeId)
              IN IF IsSome(existingPlace)
                 THEN IF r.handler \in {"registerAsset", "registerGPlace"}
                      THEN Step(s, Respond(r, 200, DocBody(Val(existingPlace))))
                      ELSE Step(s, Respond(r, 409,
                                   [DocBody(Val(existingPlace)) EXCEPT
                                       !.error = "Place already registered"]))
                 ELSE Step(s, [r EXCEPT !.pc = "fetch", !.provCalls = 1])
    /\ UNCHANGED <<app, proc, store, mapperIn, mapperOut, authVars, promptVars>>

\* registerAsset after getPlace returned: map the record, issue the create.
AfterGetPlace(r, out) ==
    LET got == getPlace(out) IN
    IF got.threw THEN RegisterFailure(r, "provider")
    ELSE LET mapped == mapGooglePlaceToAsset(Val(got.place), <<>>, <<>>, None, TRUE)
             r1 == [r EXCEPT !.raw = got.place]
         IN IF mapped.threw THEN RegisterFailure(r1, "mapper")
            ELSE LET a == Val(mapped.asset)
                 IN [r1 EXCEPT !.pc = "create", !.dbOps = r.dbOps + 1,
                       !.held = Some([_id |-> 0, externalId |-> a.externalId,
                                      displayName |-> a.displayName,
                                      formattedAddress |-> a.formattedAddress,
                                      googleMapsUri |-> a.googleMapsUri,
                                      primaryType |-> a.primaryType,
                                      location |-> a.location,
                                      aiDescription |-> a.aiDescription,
                                      aiTags |-> a.aiTags,
                                      aiLandingPage |-> a.aiLandingPage,
                                      category |-> Undefined])]

\* registerPlace after getEntity returned: createPlace starts with its own
\* existence check.
AfterGetEntity(r, out) ==
    LET got == getEntity(out, r.http.placeId)
        r1 == [r EXCEPT !.raw = out.response]
    IN IF got.threw THEN RegisterFailure(r1, "provider")
       ELSE [r1 EXCEPT !.pc = "createFind", !.dbOps = r.dbOps + 1, !.held = got.place]

\* The single-phase register after getPlace returned: the generation calls
\* are issued before anything is stored.
AfterGetPlaceDetails(r, out) ==
    LET got == getPlaceDetails(out)
        r1 == [r EXCEPT !.raw = out.response]
    IN IF got.threw THEN RegisterFailure(r1, "provider")
       ELSE [r1 EXCEPT !.pc = "gen", !.genCalls = 2]

\* What a provider answer was, as the environment's events.
GetPlaceEvents(out) ==
    IF out.threw THEN {"providerThrew"}
    ELSE IF ~IsSome(out.response) THEN {"providerEmpty"}
    ELSE IF ~IsSome(Val(out.response).location) THEN {"noLocation"}
    ELSE {}

PlaceDetailsEvents(out) ==
    IF out.threw THEN {"providerThrew"}
    ELSE IF ~IsSome(Val(out.response).geometry) THEN {"noLocation"}
    ELSE IF ~IsSome(Val(Val(out.response).geometry).location) THEN {"noLocation"}
    ELSE {}

\* A provider call returns: the fetch of a register handler, or a search.
ProviderDone(s) ==
    LET r == reqs[s] IN
    /\ r.pc \in {"fetch", "search"}
    /\ IF r.pc = "search"
       THEN \E ok \in BOOLEAN :
               Step(s, IF ok THEN Respond(r, 200, [NoBody EXCEPT !.list = TRUE])
                       ELSE Respond(Env(r, {"providerThrew"}), 500,
                                    ErrorBody("Failed to search places")))
       ELSE IF r.handler = "registerAsset"
       THEN \E out \in GetPlaceResponses(r.http.placeId) :
               Step(s, AfterGetPlace(Env(r, GetPlaceEvents(out)), out))
       ELSE IF r.handler = "registerGPlace"
       THEN \E out \in PlaceDetailsResponses(r.http.placeId) :
               Step(s, AfterGetPlaceDetails(Env(r, PlaceDetailsEvents(out)), out))
       ELSE \E out \in PlaceDetailsResponses(r.http.placeId) :
               Step(s, AfterGetEntity(Env(r, PlaceDetailsEvents(out)), out))
    /\ UNCHANGED <<app, proc, store, mapperIn, mapperOut, authVars, promptVars>>

\* PlaceDAO.createPlace: its existence check returns.
CreateFindDone(s) ==
    LET r == reqs[s] IN
    /\ r.pc = "createFind"
    /\ \E dbOk \in BOOLEAN :
         IF ~dbOk THEN Step(s, RegisterFailure(DbFailed(r), "db"))
         ELSE IF IsSome(findByPlaceId(store, Val(r.held).placeId))
         THEN Step(s, RegisterFailure(r, "conflict"))
         ELSE Step(s, [r EXCEPT !.pc = "create", !.dbOps = r.dbOps + 1])
    /\ UNCHANGED <<app, proc, store, mapperIn, mapperOut, authVars, promptVars>>

\* The save of the new document returns; the generation calls are issued.
CreateDone(s) ==
    LET r == reqs[s] IN
    /\ r.pc = "create"
    /\ \E dbOk \in BOOLEAN :
         IF ~dbOk THEN Step(s, RegisterFailure(DbFailed(r), "db")) /\ store' = store
         ELSE LET saved == save(store, Val(r.held))
              IN IF saved.threw
                 THEN Step(s, RegisterFailure(r, saved.error)) /\ store' = store
                 ELSE /\ store' = saved.docs
                      /\ IF r.handler = "registerGPlace"
                         THEN Step(s, Respond([r EXCEPT !.held = saved.doc,
                                                        !.writes = r.writes + 1],
                                              201, DocBody(Val(saved.doc))))
                         ELSE Step(s, [r EXCEPT !.pc = "gen", !.held = saved.doc,
                                                !.writes = r.writes + 1, !.genCalls = 2])
    /\ UNCHANGED <<app, proc, mapperIn, mapperOut, authVars, promptVars>>

\* registerAsset: Promise.all([generateAssetSummary, classifyCategory]) settles.
AfterAssetGeneration(r, d, c) ==
    LET aiDescription == generateAssetSummary(d)
        category == classifyCategory(c)
    IN IF aiDescription.threw THEN RegisterFailure(r, "generation")
       ELSE [r EXCEPT !.pc = "update", !.dbOps = r.dbOps + 1,
                      !.aiDescription = aiDescription.value,
                      !.category = category, !.completion = Some(c)]

\* registerPlace: Promise.all([generateDescription, generateTags]) settles
\* inside the inner try.
AfterPlaceGeneration(r, d, t) ==
    LET description == generateAssetDescription(d)
        tags == generateTags(t)
    IN IF description.threw \/ tags.threw
       THEN Respond([r EXCEPT !.errs = r.errs \cup {"generation"}], 201,
                    DocBody(Val(r.held)))
       ELSE [r EXCEPT !.pc = "update", !.dbOps = r.dbOps + 1,
                      !.aiDescription = description.value, !.aiTags = tags.value]

\* The single-phase register: Promise.all([generateDescription, generateTags])
\* settles inside the inner try, then the record is mapped with the AI content
\* and the create is issued.
AfterSinglePhaseGeneration(r, d, t) ==
    LET description == generateAssetDescription(d)
        tags == generateTags(t)
        failed == description.threw \/ tags.threw
        aiDescription == IF failed THEN <<>> ELSE description.value
        aiTags == IF failed THEN <<>> ELSE tags.value
        mapped == toAsset(Val(r.raw), aiDescription, aiTags, TRUE)
        r1 == [r EXCEPT !.aiDescription = aiDescription, !.aiTags = aiTags,
                        !.errs = IF failed THEN r.errs \cup {"generation"} ELSE r.errs]
    IN IF mapped.threw THEN RegisterFailure(r1, "mapper")
       ELSE [r1 EXCEPT !.pc = "create", !.dbOps = r.dbOps + 1,
                       !.held = Some([_id |-> 0,
                                      placeId |-> Val(mapped.asset).placeId,
                                      aiDescription |-> Val(mapped.asset).aiDescription,
                                      aiTags |-> Val(mapped.asset).aiTags])]

\* What the generation client did, as the environment's events.
GenerationEvents(d, other, what) ==
    (IF d.threw THEN {"descriptionThrew"} ELSE {})
    \cup (IF other.threw THEN {what} ELSE {})

\* The joint await of the two generation calls settles.
GenDone(s) ==
    LET r == reqs[s] IN
    /\ r.pc = "gen"
    /\ IF r.handler = "registerAsset"
       THEN \E d \in ChatOutcomes(DescriptionContents), c \in ChatOutcomes({None, Some(<<>>),
               Some(<<"Cultural">>), Some(<<" ", "Commerce", "\n">>), Some(<<"Default">>),
               Some(<<"Museum">>), Some(<<"cultural">>)}) :
               Step(s, AfterAssetGeneration(
                          Env(r, GenerationEvents(d, c, "categoryThrew")), d, c))
       ELSE IF r.handler = "registerGPlace"
       THEN \E d \in ChatOutcomes(DescriptionContents), t \in ChatOutcomes(TagsContents) :
               Step(s, AfterSinglePhaseGeneration(
                          Env(r, GenerationEvents(d, t, "tagsThrew")), d, t))
       ELSE \E d \in ChatOutcomes(DescriptionContents), t \in ChatOutcomes(TagsContents) :
               Step(s, AfterPlaceGeneration(
                          Env(r, GenerationEvents(d, t, "tagsThrew")), d, t))
    /\ UNCHANGED <<app, proc, store, mapperIn, mapperOut, authVars, promptVars>>

\* The update that attaches the AI content returns; the request is answered.
UpdateDone(s) ==
    LET r == reqs[s]
        updated == update(store, Val(r.held)._id, r)
        wrote == [r EXCEPT !.writes = r.writes + (IF IsSome(updated.doc) THEN 1 ELSE 0)]
    IN
    /\ r.pc = "update"
    /\ \E dbOk \in BOOLEAN :
         IF ~dbOk
         THEN /\ store' = store
              /\ IF r.handler = "registerAsset"
                 THEN Step(s, RegisterFailure(DbFailed(r), "db"))
                 ELSE Step(s, Respond([DbFailed(r) EXCEPT !.errs = r.errs \cup {"db"}], 201,
                                      DocBody(Val(r.held))))
         ELSE /\ store' = updated.docs
              /\ IF r.handler = "registerAsset"
                 THEN Step(s, Respond(wrote, 200, [NoBody EXCEPT !.doc = updated.doc]))
                 ELSE Step(s, Respond(wrote, 201,
                                      IF IsSome(updated.doc) THEN DocBody(Val(updated.doc))
                                      ELSE DocBody(Val(r.held))))
    /\ UNCHANGED <<app, proc, mapperIn, mapperOut, authVars, promptVars>>

\* GET /:placeId and GET /:externalId: the lookup returns.
GetDone(s) ==
    LET r == reqs[s] IN
    /\ r.pc = "getFind"
    /\ \E dbOk \in BOOLEAN :
         IF ~dbOk
         THEN Step(s, Respond(DbFailed(r), 500,
                              ErrorBody(IF r.handler = "getAsset"
                                        THEN "Failed to fetch asset"
                                        ELSE "Failed to fetch place")))
         ELSE LET found == findOne(store, r.http.path)
              IN IF IsSome(found) THEN Step(s, Respond(r, 200, DocBody(Val(found))))
                 ELSE Step(s, Respond(r, 404,
                                      ErrorBody(IF r.handler = "getAsset"
                                                THEN "Asset not found"
                                                ELSE "Place not found")))
    /\ UNCHANGED <<app, proc, store, mapperIn, mapperOut, authVars, promptVars>>

\* DELETE /:placeId: the lookup returns.
DeleteFindDone(s) ==
    LET r == reqs[s] IN
    /\ r.pc = "delFind"
    /\ \E dbOk \in BOOLEAN :
         IF ~dbOk
         THEN Step(s, Respond(DbFailed(r), 500,
                              ErrorBody("Failed to delete place")))
         ELSE LET place == findByPlaceId(store, r.http.path)
              IN IF ~IsSome(place)
                 THEN Step(s, Respond(r, 404, ErrorBody("Place not found")))
                 ELSE Step(s, [r EXCEPT !.pc = "delete", !.held = place,
                                        !.dbOps = r.dbOps + 1])
    /\ UNCHANGED <<app, proc, store, mapperIn, mapperOut, authVars, promptVars>>

\* DELETE /:placeId: the delete returns.
DeleteDone(s) ==
    LET r == reqs[s] IN
    /\ r.pc = "delete"
    /\ \E dbOk \in BOOLEAN :
         IF ~dbOk
         THEN /\ store' = store
              /\ Step(s, Respond(DbFailed(r), 500,
                                 ErrorBody("Failed to delete place")))
         ELSE /\ store' = delete(store, Val(r.held)._id)
              /\ Step(s, Respond([r EXCEPT !.writes = r.writes + 1], 200,
                                 [NoBody EXCEPT !.message = "Place deleted successfully"]))
    /\ UNCHANGED <<app, proc, mapperIn, mapperOut, authVars, promptVars>>

\* The answered request leaves its connection.
Release(s) ==
    /\ reqs[s].pc = "done"
    /\ reqs' = [reqs EXCEPT ![s] = IdleReq]
    /\ UNCHANGED <<app, proc, store, registered, mapperIn, mapperOut, authVars, promptVars>>

NoMapperRun == [phase |-> "none"]

\* ------------------------------------------------ parts of the state at rest
\* The body of an /auth response: res.json({error, errors, user, token}); an
\* errorHandler response carries its message in error and its stack in stack.
NoAuthBody ==
    [error |-> "", errors |-> <<>>, user |-> None, token |-> None, stack |-> Undefined]

NoCredentials ==
    [email |-> <<>>, password |-> <<>>, firstName |-> Undefined, lastName |-> Undefined]

IdleAuthReq ==
    [pc |-> "idle", kind |-> "", input |-> NoCredentials,
     status |-> 0, body |-> NoAuthBody, sent |-> 0,
     handlerCalled |-> FALSE, dbOps |-> 0, provCalls |-> 0, writes |-> 0,
     existed |-> FALSE, raced |-> FALSE, env |-> {}, errMsg |-> "",
     held |-> None]

\* enum RequestType
BuiltinRequestTypes == {"description", "tags", "landing_page"}

\* ================================================================ start-up

\* A getRequiredEnv that answers the empty string for a missing variable.
getRequiredEnvLenient(env, key) == [threw |-> FALSE, key |-> key, value |-> IF env[key] = "set" THEN "env" ELSE ""]

\* getRequiredEnv(key): throws when the value is undefined or empty.
getRequiredEnv(env, key) ==
    IF env[key] \in {"unset", "empty"}
    THEN [threw |-> TRUE, key |-> key, value |-> ""]
    ELSE [threw |-> FALSE, key |-> key, value |-> "env"]

\* process.env.KEY || fallback
EnvOr(env, key, fallback) == IF env[key] = "set" THEN "env" ELSE fallback

\* The config object of config/env.config.ts; its properties are evaluated
\* in source order, so the error names the first required variable missing.
envConfig(env) ==
    LET required == [k \in {"MONGODB_URI", "JWT_SECRET", "GOOGLE_MAPS_API_KEY",
                            "OPENAI_API_KEY"} |-> getRequiredEnv(env, k)]
        order == <<"MONGODB_URI", "JWT_SECRET", "GOOGLE_MAPS_API_KEY", "OPENAI_API_KEY">>
        failed == {i \in 1..4 : required[order[i]].threw}
    IN IF failed # {}
       THEN [threw |-> TRUE,
             error |-> order[CHOOSE i \in failed : \A j \in failed : i <= j],
             config |-> None]
       ELSE [threw |-> FALSE, error |-> "",
             config |-> Some([PORT |-> EnvOr(env, "PORT", "3000"),
                              NODE_ENV |-> EnvOr(env, "NODE_ENV", "development"),
                              MONGODB_URI |-> required["MONGODB_URI"].value,
                              JWT_SECRET |-> required["JWT_SECRET"].value,
                              JWT_EXPIRATION |-> EnvOr(env, "JWT_EXPIRATION", "24h"),
                              GOOGLE_MAPS_API_KEY |-> required["GOOGLE_MAPS_API_KEY"].value,
                              OPENAI_API_KEY |-> required["OPENAI_API_KEY"].value,
                              LOG_LEVEL |-> EnvOr(env, "LOG_LEVEL", "info")])]

\* The process before any module is loaded.
Starting(env) ==
    [phase |-> "loading", env |-> env, config |-> None, error |-> "",
     indexConfig |-> None, warned |-> FALSE]

\* The entry module imports app.ts, which imports config/env.config.ts: a
\* throw while the module is evaluated ends the process.
LoadEnvConfig ==
    /\ proc.phase = "loading" /\ ~IsSome(proc.config)
    /\ LET c == envConfig(proc.env)
       IN proc' = IF c.threw
                  THEN [proc EXCEPT !.phase = "crashed", !.error = c.error]
                  ELSE [proc EXCEPT !.config = c.config]
    /\ UNCHANGED <<app, store, reqs, registered, mapperIn, mapperOut, authVars, promptVars>>

\* config/index.ts is evaluated (when a module that imports it is loaded):
\* missing variables get a default, a missing DEEPSEEK_API_KEY is logged.
LoadConfigIndex ==
    /\ proc.phase = "loading" /\ IsSome(proc.config) /\ ~IsSome(proc.indexConfig)
    /\ proc' = [proc EXCEPT
                  !.indexConfig =
                      Some([DEEPSEEK_API_KEY |-> EnvOr(proc.env, "DEEPSEEK_API_KEY", ""),
                            OLLAMA_API_URL |-> EnvOr(proc.env, "OLLAMA_API_URL",
                                                     "http://localhost:11434/api")]),
                  !.warned = (EnvOr(proc.env, "DEEPSEEK_API_KEY", "") = "")]
    /\ UNCHANGED <<app, store, reqs, registered, mapperIn, mapperOut, authVars, promptVars>>

\* app.listen(config.PORT): the server accepts requests.
Listen ==
    /\ proc.phase = "loading" /\ IsSome(proc.config)
    /\ proc' = [proc EXCEPT !.phase = "listening"]
    /\ UNCHANGED <<app, store, reqs, registered, mapperIn, mapperOut, authVars, promptVars>>

\* The process of a server that is accepting requests, every variable set.
Serving ==
    LET env == [k \in {"PORT", "NODE_ENV", "MONGODB_URI", "JWT_SECRET", "JWT_EXPIRATION",
                        "GOOGLE_MAPS_API_KEY", "OPENAI_API_KEY", "LOG_LEVEL",
                        "DEEPSEEK_API_KEY", "OLLAMA_API_URL"} |-> "set"]
    IN [Starting(env) EXCEPT !.phase = "listening", !.config = envConfig(env).config]

\* The process after start-up: empty collections, no request in service,
\* REQUEST_CONFIGS as the module initialises it, no mapper call made.
AtRest ==
    /\ store = {}
    /\ reqs = [s \in Slots |-> IdleReq]
    /\ registered = {}
    /\ users = {}
    /\ authReqs = [s \in Slots |-> IdleAuthReq]
    /\ REQUEST_CONFIGS = [own |-> {[type |-> t, details |-> "builtin"] : t \in BuiltinRequestTypes},
                          proto |-> None, registered |-> BuiltinRequestTypes]
    /\ promptOut = [call |-> "none", remembered |-> None]
    /\ mapperOut = NoMapperRun

Init ==
    /\ app \in {"places", "gplace", "gplaces"}
    /\ AtRest
    /\ proc = Serving
    /\ mapperIn = NoMapperRun

Next ==
    \E s \in Slots :
       \/ Receive(s)
       \/ FindDone(s)
       \/ ProviderDone(s)
       \/ CreateFindDone(s)
       \/ CreateDone(s)
       \/ GenDone(s)
       \/ UpdateDone(s)
       \/ GetDone(s)
       \/ DeleteFindDone(s)
       \/ DeleteDone(s)
       \/ Release(s)

Spec == Init /\ [][Next]_vars

\* ============================================================ mapper runs

Widths == {0, PhotoWidthCap - 1, PhotoWidthCap, PhotoWidthCap + 1, MaxWidth}

\* The sequences over S of length at most n.
SeqsUpTo(S, n) == UNION {[1..k -> S] : k \in 0..n}

\* The values of the schema's priceLevel enum.
RecognisedPriceLevels ==
    {"PRICE_LEVEL_FREE", "PRICE_LEVEL_INEXPENSIVE", "PRICE_LEVEL_MODERATE",
     "PRICE_LEVEL_EXPENSIVE", "PRICE_LEVEL_VERY_EXPENSIVE"}

NewInput(place, googleMapsService) ==
    [phase |-> "input", schema |-> "new", place |-> place,
     googleMapsService |-> googleMapsService]

LegacyInput(place, googleMapsService) ==
    [phase |-> "input", schema |-> "legacy", legacyPlace |-> place,
     googleMapsService |-> googleMapsService]

\* Records that vary the photos, records that vary one option group, and
\* records that vary id and location.
NewInputs ==
    {NewInput([GooglePlace("p1", PresentLocation) EXCEPT !.photos = Some(ps)], g) :
        ps \in SeqsUpTo([name : {<<>>, <<"places", "p1", "photos", "r1">>, <<"r2">>,
                                 <<"places", "p1", "photos", "">>},
                         widthPx : Widths, heightPx : {None, Some(600)}], MaxPhotos),
        g \in BOOLEAN}
    \cup {NewInput([GooglePlace("p1", PresentLocation) EXCEPT !.parkingOptions = Some(o)], TRUE) :
        o \in [{"freeParkingLot", "paidParkingLot", "freeStreetParking", "valetParking",
                "freeGarageParking", "paidGarageParking"} -> FlagVals]}
    \cup {NewInput([GooglePlace("p1", PresentLocation) EXCEPT !.paymentOptions = Some(o)], TRUE) :
        o \in [{"acceptsCreditCards", "acceptsDebitCards", "acceptsCashOnly",
                "acceptsNfc"} -> FlagVals]}
    \cup {NewInput([GooglePlace("p1",
            PresentLocation) EXCEPT !.accessibilityOptions = Some(o)], TRUE) :
        o \in [{"wheelchairAccessibleParking", "wheelchairAccessibleEntrance",
                "wheelchairAccessibleRestroom", "wheelchairAccessibleSeating"} -> FlagVals]}
    \cup {NewInput(GooglePlace(id, loc), g) :
        id \in {"p1", Undefined, Null}, loc \in {None, PresentLocation,
                Some([latitude |-> None, longitude |-> None])}, g \in BOOLEAN}
    \cup {NewInput([GooglePlace(id, PresentLocation) EXCEPT
                       !.displayName = dn, !.formattedAddress = fa,
                       !.googleMapsUri = uri, !.types = ts], TRUE) :
        id \in {"p1", Undefined}, dn \in {None, Some([text |-> "Cafe", languageCode |-> "en"]),
                Some([text |-> Undefined, languageCode |-> Undefined])},
        fa \in {Undefined, Null, "1 Main St"}, uri \in {Undefined, "maps/p"},
        ts \in {None, Some(<<>>), Some(<<"cafe", "food">>)}}
    \cup {NewInput([GooglePlace("p1", PresentLocation) EXCEPT
                       !.regularOpeningHours = Some([periods |-> ps])], TRUE) :
        ps \in {None} \cup {Some(q) :
                   q \in SeqsUpTo(
                     [open : {None, Some([day |-> Some(5), hour |-> Some(9), minute |-> Some(30)]),
                              Some([day |-> None, hour |-> None, minute |-> None]),
                              Some([day |-> Some(5), hour |-> None, minute |-> Some(30)])},
                      close : {None, Some([day |-> Some(5), hour |-> Some(9), minute |-> Some(30)]),
                               Some([day |-> None, hour |-> None, minute |-> None]),
                               Some([day |-> Some(5), hour |-> None, minute |-> Some(30)])}],
                     MaxPeriods)}}
    \cup {NewInput([GooglePlace("p1", PresentLocation) EXCEPT !.priceLevel = pl], TRUE) :
        pl \in (RecognisedPriceLevels \cup {"PRICE_LEVEL_UNSPECIFIED", Undefined, Null, "",
                "PRICE_LEVEL_LUXURY"})}

LegacyInputs ==
    {LegacyInput([GooglePlaceDetails("p1", PresentGeometry) EXCEPT !.photos = Some(ps)], g) :
        ps \in SeqsUpTo([photo_reference : {"", "ref1"}, width : Widths, height : {0, 600}],
                MaxPhotos), g \in BOOLEAN}
    \cup {LegacyInput([GooglePlaceDetails("p1", geo) EXCEPT
                          !.wheelchair_accessible_entrance = w], TRUE) :
        geo \in {None, Some([location |-> None]), PresentGeometry}, w \in FlagVals}
    \cup {LegacyInput([GooglePlaceDetails("p1", PresentGeometry) EXCEPT
                          !.opening_hours = Some([periods |-> ps])], TRUE) :
        ps \in {None} \cup {Some(q) :
                   q \in SeqsUpTo(
                     [open : {None, Some([day |-> Some(5), time |-> "0930"]),
                              Some([day |-> None, time |-> Undefined])},
                      close : {None, Some([day |-> Some(5), time |-> "0930"]),
                               Some([day |-> None, time |-> Undefined])}],
                     MaxPeriods)}}
    \cup {LegacyInput([GooglePlaceDetails("p1", PresentGeometry) EXCEPT
                          !.price_level = pl], TRUE) :
        pl \in {None, Some(0), Some(2), Some(7)}}

InitMapper ==
    /\ app = "none"
    /\ AtRest
    /\ proc = Serving
    /\ mapperIn \in NewInputs \cup LegacyInputs
          \cup {[phase |-> "input", schema |-> "ai", description |-> d, tags |-> t] :
                   d \in ChatOutcomes(DescriptionContents), t \in ChatOutcomes(TagsContents)}

\* AssetMapper.mapGooglePlaceToAsset(place, "", [], undefined, googleMapsService)
MapNew ==
    /\ mapperIn.phase = "input" /\ mapperIn.schema = "new"
    /\ mapperOut = NoMapperRun
    /\ LET m == mapGooglePlaceToAsset(mapperIn.place, <<>>, <<>>, None,
                                      mapperIn.googleMapsService)
       IN mapperOut' = [phase |-> "done", threw |-> m.threw, asset |-> m.asset]
    /\ UNCHANGED <<app, proc, store, reqs, registered, mapperIn, authVars, promptVars>>

\* AssetMapper.toAsset(place, "", [], googleMapsService)
MapLegacy ==
    /\ mapperIn.phase = "input" /\ mapperIn.schema = "legacy"
    /\ mapperOut = NoMapperRun
    /\ LET m == toAsset(mapperIn.legacyPlace, <<>>, <<>>, mapperIn.googleMapsService)
       IN mapperOut' = [phase |-> "done", threw |-> m.threw, legacyAsset |-> m.asset]
    /\ UNCHANGED <<app, proc, store, reqs, registered, mapperIn, authVars, promptVars>>

\* assetAiContentService.generateAiContent(asset), the two completions
\* settling as mapperIn says.
GenerateAiContent ==
    /\ mapperIn.phase = "input" /\ mapperIn.schema = "ai"
    /\ mapperOut = NoMapperRun
    /\ LET c == generateAiContent(mapperIn.description, mapperIn.tags)
       IN mapperOut' = [phase |-> "done", threw |-> c.threw,
                        content |-> [description |-> c.description, tags |-> c.tags]]
    /\ UNCHANGED <<app, proc, store, reqs, registered, mapperIn, authVars, promptVars>>

NextMapper == MapNew \/ MapLegacy \/ GenerateAiContent

SpecMapper == InitMapper /\ [][NextMapper]_vars

\* ==================================================================== /auth

Emails == {<<>>, <<"a", "@", "x", ".", "y">>, <<"A", "@", "x", ".", "y">>, <<"b", "@", "x", ".", "y">>, <<"a", "x">>}

\* String.prototype.toLowerCase
toLowerCase(str) ==
    [i \in 1..Len(str) |-> IF str[i] = "A" THEN "a" ELSE str[i]]

\* /^[^\s@]+@[^\s@]+\.[^\s@]+$/.test(email)
emailRegexTest(email) ==
    \E i \in 2..(Len(email) - 1) :
       /\ email[i] = "@"
       /\ \A j \in (1..Len(email)) \ {i} : email[j] \notin Whitespace \cup {"@"}
       /\ \E k \in (i + 2)..(Len(email) - 1) : email[k] = "."

FieldError(field, message) == [field |-> field, message |-> message]

\* EmailValidator.validate
EmailValidator(data) ==
    IF data.email = <<>> THEN <<FieldError("email", "Email is required")>>
    ELSE IF ~emailRegexTest(data.email)
    THEN <<FieldError("email", "Invalid email format")>>
    ELSE <<>>

\* PasswordValidator.validate
PasswordValidator(data) ==
    IF data.password = <<>> THEN <<FieldError("password", "Password is required")>>
    ELSE IF Len(data.password) < 6
    THEN <<FieldError("password", "Password must be at least 6 characters long")>>
    ELSE <<>>

\* UserRegistrationValidator.validate
UserRegistrationValidator(data) ==
    EmailValidator(data) \o PasswordValidator(data)
    \o (IF data.firstName \in {Undefined, Null, ""}
        THEN <<FieldError("firstName", "First name is required")>> ELSE <<>>)
    \o (IF data.lastName \in {Undefined, Null, ""}
        THEN <<FieldError("lastName", "Last name is required")>> ELSE <<>>)

\* res.status(code).json(body) on an /auth route.
AuthRespond(r, code, body) ==
    [r EXCEPT !.pc = "done", !.status = code, !.body = body, !.sent = r.sent + 1]

AuthError(msg) == [NoAuthBody EXCEPT !.error = msg]

\* validateRequest(validator): the 400 it answers with.
ValidationFailed(r, errors) ==
    AuthRespond(r, 400, [NoAuthBody EXCEPT !.error = "Validation failed",
                                           !.errors = errors])

\* errorHandler: the response for an error passed to next().
errorHandler(r, err, production) ==
    AuthRespond(r, IF err.statusCode = 0 THEN 500 ELSE err.statusCode,
                [NoAuthBody EXCEPT
                    !.error = IF err.message = "" THEN "Internal Server Error"
                              ELSE err.message,
                    !.stack = IF production THEN Undefined ELSE err.stack])

\* bcrypt.hash / bcrypt.compare
BcryptHash(password) == <<"$2b$">> \o password

BcryptCompare(candidate, hashed) == hashed = BcryptHash(candidate)

\* UserDAO.findByEmail
findByEmail(docs, email) ==
    IF \E u \in docs : u.email = toLowerCase(email)
    THEN Some(CHOOSE u \in docs : u.email = toLowerCase(email))
    ELSE None

FreshUserId == CHOOSE i \in Ids : i \notin {u._id : u \in users} /\ \A j \in Ids : j \notin {u._id : u \in users} => i <= j

\* new User(data).save(): the schema lowercases the email, the pre-save hook
\* hashes the password, the unique index rejects a second document with
\* the same email.
saveUser(docs, data) ==
    LET doc == [_id |-> FreshUserId,
                email |-> toLowerCase(data.email),
                password |-> BcryptHash(data.password),
                firstName |-> data.firstName,
                lastName |-> data.lastName,
                role |-> "user"]
    IN IF \E u \in docs : u.email = doc.email
       THEN [threw |-> TRUE, docs |-> docs, doc |-> None]
       ELSE [threw |-> FALSE, docs |-> docs \cup {doc}, doc |-> Some(doc)]

\* The answer of a successful register or login (JWT version): the user
\* without the password (const { password: _, ...userWithoutPassword } =
\* user.toObject()) and the payload JwtUtils.generateToken signs.
UserAndToken(user) ==
    [NoAuthBody EXCEPT
        !.user = Some([f \in (DOMAIN user) \ {"password"} |-> user[f]]),
        !.token = Some([id |-> user._id, email |-> user.email, role |-> user.role])]

\* A login that tells the caller the email is unknown.
loginNoUserRevealing(r) == AuthRespond(r, 404, AuthError("User not found"))

\* login: no user has the email.
loginNoUser(r) == AuthRespond(r, 401, AuthError("Invalid email or password"))

\* The messages an internal error may carry.
InternalMessages == {"ECONNRESET", "pool destroyed"}

\* An internal error hit the request (a ghost of the handler).
AuthEnv(r, event, msg) == [r EXCEPT !.env = r.env \cup {event}, !.errMsg = msg]

\* Some user has the email, compared case-insensitively.
EmailTaken(email) == \E u \in users : toLowerCase(u.email) = toLowerCase(email)

\* The accounts the model lets the user collection grow to.
MaxUsers == 2

\* ------------------------------------------------ identity provider (Firebase)
\* firebaseAuth.createUser: the provider rejects an email already in use, a
\* malformed email and a short password; an account without an email may or
\* may not be accepted; it may fail internally at any time.
CreateUserOutcomes(data) ==
    {[threw |-> TRUE, message |-> m, account |-> None] : m \in InternalMessages}
    \cup (IF data.email # <<>> /\ EmailTaken(data.email)
          THEN {[threw |-> TRUE, message |-> "auth/email-already-exists", account |-> None]}
          ELSE IF data.email # <<>> /\ ~emailRegexTest(data.email)
          THEN {[threw |-> TRUE, message |-> "auth/invalid-email", account |-> None]}
          ELSE IF Len(data.password) < 6
          THEN {[threw |-> TRUE, message |-> "auth/invalid-password", account |-> None]}
          ELSE IF Cardinality(users) >= MaxUsers THEN {}
          ELSE {[threw |-> FALSE, message |-> "",
                 account |-> Some([_id |-> FreshUserId,
                                   email |-> toLowerCase(data.email),
                                   password |-> BcryptHash(data.password),
                                   displayName |-> <<data.firstName, " ", data.lastName>>])]}
               \cup (IF data.email = <<>>
                     THEN {[threw |-> TRUE, message |-> "auth/invalid-email",
                            account |-> None]}
                     ELSE {}))

\* accounts:signInWithPassword
SignInOutcomes(data) ==
    {[threw |-> TRUE, hasResponse |-> FALSE, message |-> m, account |-> None] :
        m \in InternalMessages}
    \cup (IF ~EmailTaken(data.email) \/ data.email = <<>>
          THEN {[threw |-> TRUE, hasResponse |-> TRUE, message |-> "EMAIL_NOT_FOUND",
                 account |-> None]}
          ELSE LET account == CHOOSE u \in users :
                                 toLowerCase(u.email) = toLowerCase(data.email)
               IN IF BcryptCompare(data.password, account.password)
                  THEN {[threw |-> FALSE, hasResponse |-> TRUE, message |-> "",
                         account |-> Some(account)]}
                  ELSE {[threw |-> TRUE, hasResponse |-> TRUE,
                         message |-> "INVALID_PASSWORD", account |-> None]})

\* router.post("/register") of the Firebase version, after createUser settled.
AfterFirebaseCreateUser(r, out) ==
    IF out.threw THEN AuthRespond(r, 400, AuthError(out.message))
    ELSE LET userRecord == Val(out.account)
         IN AuthRespond([r EXCEPT !.writes = r.writes + 1], 201,
                        [NoAuthBody EXCEPT
                            !.user = Some([uid |-> userRecord._id,
                                           email |-> userRecord.email,
                                           displayName |-> userRecord.displayName])])

\* router.post("/login") of the Firebase version, after the sign-in settled.
AfterFirebaseSignIn(r, out) ==
    IF out.threw THEN AuthRespond(r, 401, AuthError(out.message))
    ELSE AuthRespond(r, 200,
                     [NoAuthBody EXCEPT
                         !.user = Some([uid |-> Val(out.account)._id,
                                        email |-> r.input.email]),
                         !.token = Some([idToken |-> Val(out.account)._id])])

\* ------------------------------------------------------------ /auth actions
\* The middleware chain of an /auth route and the start of its handler.
AuthAdmit(kind, input) ==
    LET r0 == [IdleAuthReq EXCEPT !.kind = kind, !.input = input,
                                  !.existed = EmailTaken(input.email)]
        called == [r0 EXCEPT !.handlerCalled = TRUE]
    IN IF kind = "other" THEN \* notFoundHandler passes a 404 error to next()
                              errorHandler(r0, [statusCode |-> 404, message |-> "Not Found",
                                                stack |-> "stack"], FALSE)
       ELSE IF app = "firebase"
       THEN [called EXCEPT !.pc = "provider", !.provCalls = 1]
       ELSE IF kind = "register"
       THEN IF UserRegistrationValidator(input) # <<>>
            THEN ValidationFailed(r0, UserRegistrationValidator(input))
            ELSE [called EXCEPT !.pc = "find", !.dbOps = 1]
       ELSE IF EmailValidator(input) # <<>>
       THEN ValidationFailed(r0, EmailValidator(input))
       ELSE IF PasswordValidator(input) # <<>>
       THEN ValidationFailed(r0, PasswordValidator(input))
       ELSE [called EXCEPT !.pc = "find", !.dbOps = 1]

\* An /auth request arrives on a free connection.
AuthReceive(s) ==
    /\ authReqs[s].pc = "idle"
    /\ \/ \E input \in [email : Emails \ {<<"b", "@", "x", ".", "y">>},
                          password : {<<>>, <<"s", "e", "c", "r", "e", "t">>,
                                      <<"s", "e", "c", "r", "e">>},
                          firstName : {Undefined, "Ann"}, lastName : {"Ann"}] :
             authReqs' = [authReqs EXCEPT ![s] = AuthAdmit("register", input)]
       \/ \E input \in [email : Emails,
                          password : {<<>>, <<"s", "e", "c", "r", "e", "t">>,
                                      <<"p", "u", "b", "l", "i", "c">>,
                                      <<"s", "e", "c", "r", "e">>},
                          firstName : {Undefined}, lastName : {Undefined}] :
             authReqs' = [authReqs EXCEPT ![s] = AuthAdmit("login", input)]
       \/ authReqs' = [authReqs EXCEPT ![s] = AuthAdmit("other", NoCredentials)]
    /\ UNCHANGED <<app, proc, store, reqs, registered, mapperIn, mapperOut, users, promptVars>>

\* The catch block of a JWT /auth handler.
AuthFailure(r) ==
    AuthRespond(r, 500, AuthError(IF r.kind = "register" THEN "Registration failed"
                                  ELSE "Login failed"))

\* await userDao.findByEmail(email) of register and login returns.
AuthFindDone(s) ==
    LET r == authReqs[s] IN
    /\ r.pc = "find"
    /\ \/ \E m \in InternalMessages :
             authReqs' = [authReqs EXCEPT ![s] = AuthFailure(AuthEnv(r, "dbFail", m))]
       \/ LET user == findByEmail(users, r.input.email)
          IN authReqs' = [authReqs EXCEPT ![s] =
                IF r.kind = "register"
                THEN IF IsSome(user)
                     THEN AuthRespond(r, 409, AuthError("Email already registered"))
                     ELSE [r EXCEPT !.pc = "createFind", !.dbOps = r.dbOps + 1]
                ELSE IF ~IsSome(user) THEN loginNoUser(r)
                ELSE [r EXCEPT !.pc = "compare", !.held = user]]
    /\ UNCHANGED <<app, proc, store, reqs, registered, mapperIn, mapperOut, users, promptVars>>

\* UserDAO.createUser: its own findByEmail returns.
AuthCreateFindDone(s) ==
    LET r == authReqs[s] IN
    /\ r.pc = "createFind"
    /\ \/ \E m \in InternalMessages :
             authReqs' = [authReqs EXCEPT ![s] = AuthFailure(AuthEnv(r, "dbFail", m))]
       \/ authReqs' = [authReqs EXCEPT ![s] =
             IF IsSome(findByEmail(users, r.input.email))
             THEN AuthFailure([r EXCEPT !.raced = TRUE])
             ELSE [r EXCEPT !.pc = "create", !.dbOps = r.dbOps + 1]]
    /\ UNCHANGED <<app, proc, store, reqs, registered, mapperIn, mapperOut, users, promptVars>>

\* UserDAO.createUser: the save returns; register answers.
AuthCreateDone(s) ==
    LET r == authReqs[s] IN
    /\ r.pc = "create"
    /\ \/ /\ \E m \in InternalMessages :
               authReqs' = [authReqs EXCEPT ![s] = AuthFailure(AuthEnv(r, "dbFail", m))]
          /\ users' = users
       \/ LET saved == saveUser(users, r.input)
          IN IF saved.threw
             THEN /\ authReqs' = [authReqs EXCEPT ![s] = AuthFailure([r EXCEPT !.raced = TRUE])]
                  /\ users' = users
             ELSE /\ users' = saved.docs
                  /\ authReqs' = [authReqs EXCEPT ![s] =
                        AuthRespond([r EXCEPT !.writes = r.writes + 1], 201,
                                    UserAndToken(Val(saved.doc)))]
    /\ UNCHANGED <<app, proc, store, reqs, registered, mapperIn, mapperOut, promptVars>>

\* await user.comparePassword(password) returns; login answers.
AuthCompareDone(s) ==
    LET r == authReqs[s] IN
    /\ r.pc = "compare"
    /\ \/ \E m \in InternalMessages :
             authReqs' = [authReqs EXCEPT ![s] = AuthFailure(AuthEnv(r, "bcryptFail", m))]
       \/ authReqs' = [authReqs EXCEPT ![s] =
             IF ~BcryptCompare(r.input.password, Val(r.held).password)
             THEN AuthRespond(r, 401, AuthError("Invalid email or password"))
             ELSE AuthRespond(r, 200, UserAndToken(Val(r.held)))]
    /\ UNCHANGED <<app, proc, store, reqs, registered, mapperIn, mapperOut, users, promptVars>>

\* The identity provider answers a register or login of the Firebase version.
AuthProviderDone(s) ==
    LET r == authReqs[s] IN
    /\ r.pc = "provider"
    /\ IF r.kind = "register"
       THEN \E out \in CreateUserOutcomes(r.input) :
               /\ authReqs' = [authReqs EXCEPT ![s] =
                     AfterFirebaseCreateUser(
                        IF out.message \in InternalMessages
                        THEN AuthEnv(r, "providerFail", out.message) ELSE r, out)]
               /\ users' = IF out.threw THEN users ELSE users \cup {Val(out.account)}
       ELSE \E out \in SignInOutcomes(r.input) :
               /\ authReqs' = [authReqs EXCEPT ![s] =
                     AfterFirebaseSignIn(
                        IF out.message \in InternalMessages
                        THEN AuthEnv(r, "providerFail", out.message) ELSE r, out)]
               /\ users' = users
    /\ UNCHANGED <<app, proc, store, reqs, registered, mapperIn, mapperOut, promptVars>>

\* The answered /auth request leaves its connection.
AuthRelease(s) ==
    /\ authReqs[s].pc = "done"
    /\ authReqs' = [authReqs EXCEPT ![s] = IdleAuthReq]
    /\ UNCHANGED <<app, proc, store, reqs, registered, mapperIn, mapperOut, users, promptVars>>

InitAuth ==
    /\ app \in {"jwt", "firebase"}
    /\ AtRest
    /\ proc = Serving
    /\ mapperIn = NoMapperRun

NextAuth ==
    \E s \in Slots :
       \/ AuthReceive(s)
       \/ AuthFindDone(s)
       \/ AuthCreateFindDone(s)
       \/ AuthCreateDone(s)
       \/ AuthCompareDone(s)
       \/ AuthProviderDone(s)
       \/ AuthRelease(s)

SpecAuth == InitAuth /\ [][NextAuth]_vars

\* ================================================================= UserDAO
\* UserDAO.updateUser: an undefined password is deleted from the update (None
\* is the absent field); every other one goes with the rest of the data to
\* MongoDataAccessObject.update, whose findByIdAndUpdate(id, {$set: data})
\* writes the fields as they are given: it is a query, so the pre("save")
\* hook of the schema does not run.
updateUser(docs, id, userData) ==
    {IF u._id # id THEN u
     ELSE [u EXCEPT !.password = IF IsSome(userData.password)
                                 THEN Val(userData.password) ELSE @,
                    !.firstName = IF IsSome(userData.firstName)
                                  THEN Val(userData.firstName) ELSE @]
        : u \in docs}

\* UserDAO.createUser: the email check, then create (new User(data).save()).
CreateUser ==
    /\ Cardinality(users) < MaxUsers
    /\ \E data \in [email : Emails \ {<<>>, <<"a", "x">>},
                    password : {<<"s", "e", "c", "r", "e", "t">>, <<"p", "u", "b", "l", "i", "c">>},
                    firstName : {"Ann"}, lastName : {"Ann"}] :
          users' = IF IsSome(findByEmail(users, data.email)) THEN users
                   ELSE saveUser(users, data).docs
    /\ UNCHANGED <<app, proc, store, reqs, registered, mapperIn, mapperOut, authReqs, promptVars>>

\* UserDAO.updateUser, with or without a password in the update.
UpdateUser ==
    /\ \E id \in Ids, data \in [password : {None, Some(<<"s", "e", "c", "r", "e", "t">>),
                                            Some(<<"p", "u", "b", "l", "i", "c">>)},
                                firstName : {None, Some("Bob")}] :
          users' = updateUser(users, id, data)
    /\ UNCHANGED <<app, proc, store, reqs, registered, mapperIn, mapperOut, authReqs, promptVars>>

\* UserDAO.deleteUser: findByIdAndDelete(id).
DeleteUser ==
    /\ \E id \in Ids : users' = delete(users, id)
    /\ UNCHANGED <<app, proc, store, reqs, registered, mapperIn, mapperOut, authReqs, promptVars>>

InitUserDAO ==
    /\ app = "jwt"
    /\ AtRest
    /\ proc = Serving
    /\ mapperIn = NoMapperRun

NextUserDAO == CreateUser \/ UpdateUser \/ DeleteUser

SpecUserDAO == InitUserDAO /\ [][NextUserDAO]_vars

\* =========================================================== PromptManager
\* The request types tried: the built-in ones, a new one, and two names every
\* JavaScript object answers to.
RequestTypes == BuiltinRequestTypes \cup {"summary", "constructor", "__proto__"}

\* REQUEST_CONFIGS[name]: an own property, else what the prototype chain has.
GetProperty(configs, name) ==
    IF name = "__proto__"
    THEN [kind |-> "prototype", config |-> configs.proto]
    ELSE IF \E c \in configs.own : c.type = name
    THEN [kind |-> "own", config |-> Some(CHOOSE c \in configs.own : c.type = name)]
    ELSE IF name \in {"constructor", "toString", "hasOwnProperty"}
    THEN [kind |-> "inherited", config |-> None]
    ELSE [kind |-> "undefined", config |-> None]

\* The exported systemMessage: one fixed text.
systemMessage == "PlaceDescriber"

\* A prompt whose system message is specialised by the request type.
generatePromptPerType(asset, requestType) == [threw |-> FALSE, error |-> "", systemMessage |-> requestType, asset |-> asset, requestType |-> requestType, requestDetails |-> "builtin"]

\* PromptManager.generatePrompt: the system message and the context handed
\* to the compiled template (the user message is the template applied to
\* it), or the error thrown.
generatePrompt(asset, requestType) ==
    LET config == GetProperty(REQUEST_CONFIGS, requestType)
    IN IF config.kind = "undefined"
       THEN [threw |-> TRUE, error |-> "Unsupported request type",
             systemMessage |-> Undefined,
             asset |-> asset, requestType |-> Undefined, requestDetails |-> Undefined]
       ELSE [threw |-> FALSE, error |-> "", systemMessage |-> systemMessage,
             asset |-> asset,
             requestType |-> IF IsSome(config.config) THEN Val(config.config).type
                             ELSE Undefined,
             requestDetails |-> IF IsSome(config.config) THEN Val(config.config).details
                                ELSE Undefined]

\* PromptManager.addRequestType: REQUEST_CONFIGS[type] = {type, details}
addRequestType(type, details) ==
    LET config == [type |-> type, details |-> details]
    IN IF type = "__proto__"
       THEN [REQUEST_CONFIGS EXCEPT !.proto = Some(config),
                                    !.registered = @ \cup {type}]
       ELSE [REQUEST_CONFIGS EXCEPT
                !.own = {c \in @ : c.type # type} \cup {config},
                !.registered = @ \cup {type}]

\* The ghost field remembered of promptOut: one earlier generatePrompt call
\* whose request type was not registered again since, with the number of
\* calls made after it and before the last one (counted up to 2). take says
\* whether the last call replaces the one remembered.
Remembered(take) ==
    IF take /\ promptOut.call = "generatePrompt"
    THEN Some([asset |-> promptOut.asset, requestType |-> promptOut.requestType,
               result |-> promptOut.result, since |-> 0])
    ELSE IF IsSome(promptOut.remembered)
    THEN Some([Val(promptOut.remembered) EXCEPT !.since = Min(@ + 1, 2)])
    ELSE None

\* A caller builds a prompt.
GeneratePrompt ==
    /\ \E a \in {"asset", "asset2"}, t \in RequestTypes, keep \in BOOLEAN :
          promptOut' = [call |-> "generatePrompt", asset |-> a, requestType |-> t,
                        registered |-> t \in REQUEST_CONFIGS.registered,
                        result |-> generatePrompt(a, t),
                        remembered |-> Remembered(~keep)]
    /\ UNCHANGED <<app, proc, store, reqs, registered, mapperIn, mapperOut, authVars,
                   REQUEST_CONFIGS>>

\* A caller registers a request type.
AddRequestType ==
    /\ \E t \in RequestTypes, d \in {"builtin", "custom"} :
          /\ REQUEST_CONFIGS' = addRequestType(t, d)
          /\ \E take \in BOOLEAN :
                promptOut' = [call |-> "addRequestType", requestType |-> t,
                              remembered |->
                                  LET m == Remembered(take)
                                  IN IF IsSome(m) /\ Val(m).requestType = t
                                     THEN None ELSE m]
    /\ UNCHANGED <<app, proc, store, reqs, registered, mapperIn, mapperOut, authVars>>

InitPrompt ==
    /\ app = "none"
    /\ AtRest
    /\ proc = Serving
    /\ mapperIn = NoMapperRun

NextPrompt == GeneratePrompt \/ AddRequestType

SpecPrompt == InitPrompt /\ [][NextPrompt]_vars

\* ------------------------------------------------------- start-up runs
InitConfig ==
    /\ app = "none"
    /\ AtRest
    /\ mapperIn = NoMapperRun
    /\ proc \in {Starting(env) : env \in
            {e \in [{"PORT", "NODE_ENV", "MONGODB_URI", "JWT_SECRET", "JWT_EXPIRATION",
                     "GOOGLE_MAPS_API_KEY", "OPENAI_API_KEY", "LOG_LEVEL",
                     "DEEPSEEK_API_KEY", "OLLAMA_API_URL"} -> {"unset", "empty", "set"}] :
                \A k \in {"PORT", "NODE_ENV", "JWT_EXPIRATION", "LOG_LEVEL", "OLLAMA_API_URL"} :
                   e[k] # "empty"}}

NextConfig == LoadEnvConfig \/ LoadConfigIndex \/ Listen

SpecConfig == InitConfig /\ [][NextConfig]_vars

\* ===================================================================== claims
Done(r) == r.pc = "done"

InService(r) == r.pc # "idle"

\* C1: registration is idempotent by external id. A POST register(p) that
\* arrives after a register(p) was answered with success, and meets no
\* failure of the database or of a provider, answers 200 with the stored
\* Asset whose external id is p, the store holds exactly one Asset with
\* external id p, and the request writes nothing.
C1_RegisterIdempotent ==
    \A s \in Slots :
       LET r == reqs[s] IN
       (Done(r) /\ r.handler = "registerAsset" /\ r.after /\ r.env = {})
       => /\ r.status = 200
          /\ IsSome(r.body.doc)
          /\ Val(r.body.doc) \in store
          /\ Val(r.body.doc).externalId = r.http.placeId
          /\ Cardinality({d \in store : d.externalId = r.http.placeId}) = 1
          /\ r.writes = 0

GenerationThrew(r) ==
    r.env \cap {"descriptionThrew", "tagsThrew", "categoryThrew"} # {}

\* C2: a failure of the generation provider is non-critical. A register
\* request whose existence check, fetch and create succeeded and whose
\* generation call threw is answered with a success status and the Asset,
\* with an empty description when the description call was the one that
\* threw; it is never answered 500.
C2_GenerationFailureNonCritical ==
    \A s \in Slots :
       LET r == reqs[s] IN
       (Done(r) /\ IsRegister(r) /\ GenerationThrew(r) /\ "dbFail" \notin r.env
        /\ (r.handler = "registerGPlace" => r.writes = 1))
       => /\ r.status \in {200, 201}
          /\ IsSome(r.body.doc)
          /\ ("descriptionThrew" \in r.env => Val(r.body.doc).aiDescription = <<>>)

\* The mapper of the handler applied to the raw record the request received.
MapperThrows(r) ==
    IF r.handler = "registerAsset"
    THEN mapGooglePlaceToAsset(Val(r.raw), <<>>, <<>>, None, TRUE).threw
    ELSE toAsset(Val(r.raw), <<>>, <<>>, TRUE).threw

\* C3: a raw record without a location (new schema) or without
\* geometry.location (legacy schema) makes the mapper throw, and the register
\* request that received it writes nothing to the store and is answered 500;
\* the two-phase handlers answer at once, without a generation call.
C3_MissingLocationPersistsNothing ==
    \A s \in Slots :
       LET r == reqs[s] IN
       (InService(r) /\ IsRegister(r) /\ "noLocation" \in r.env)
       => /\ MapperThrows(r)
          /\ r.writes = 0
          /\ Done(r) => r.status = 500
          /\ r.handler # "registerGPlace" => (Done(r) /\ r.genCalls = 0)

C3_Witness ==
    \E s \in Slots :
       /\ Done(reqs[s]) /\ "noLocation" \in reqs[s].env
       /\ reqs[s].handler = "registerAsset"
       /\ ~IsSome(Val(reqs[s].raw).location)
       /\ reqs[s].status = 500

\* The completions that are a recognised category, and the category of each.
RecognisedCompletions == {Some(<<"Cultural">>), Some(<<" ", "Commerce", "\n">>)}

RecognisedCategory(c) ==
    IF c.content = Some(<<"Cultural">>) THEN "Cultural" ELSE "Commerce"

\* C4: classification yields one of the six categories for every outcome of
\* the generation client: the recognised category for a recognised
\* completion, Default for free text, an empty or missing completion and a
\* thrown error; every stored Asset's category is absent or one of the six.
C4_CategoryEnumerated ==
    /\ \A s \in Slots :
          LET r == reqs[s] IN
          IsSome(r.completion)
          => LET c == Val(r.completion) IN
             /\ r.category \in Categories
             /\ r.category = IF ~c.threw /\ c.content \in RecognisedCompletions
                             THEN RecognisedCategory(c) ELSE "Default"
    /\ app = "gplace" => \A d \in store : d.category \in Categories \cup {Undefined}

C4_Witness ==
    \E s \in Slots :
       /\ Done(reqs[s]) /\ reqs[s].status = 200
       /\ IsSome(reqs[s].completion)
       /\ Val(reqs[s].completion).content = Some(<<"Museum">>)
       /\ \E d \in store : d.category = "Default"

ProviderThrew(r) == r.env \cap {"providerThrew", "providerEmpty"} # {}

\* C5: a mapping-provider failure is fatal to registration. When the fetch
\* throws or finds no place for the id, the register request is answered 500
\* at once, no Asset is created and no generation call is issued.
C5_ProviderFailureFatal ==
    \A s \in Slots :
       LET r == reqs[s] IN
       (InService(r) /\ IsRegister(r) /\ ProviderThrew(r))
       => /\ Done(r)
          /\ r.status = 500
          /\ r.writes = 0
          /\ r.genCalls = 0

C5_Witness ==
    \E s \in Slots :
       /\ Done(reqs[s]) /\ reqs[s].handler = "registerAsset"
       /\ "providerEmpty" \in reqs[s].env
       /\ reqs[s].status = 500 /\ reqs[s].provCalls = 1

ConsumerBearer == [scheme |-> "Bearer", token |-> "consumer"]

\* C6: DELETE /places/{placeId} with a valid bearer token whose role is not
\* admin is answered 403 by the middleware: no find and no delete is issued,
\* the request writes nothing to the store.
C6_NonAdminDeleteForbidden ==
    \A s \in Slots :
       LET r == reqs[s] IN
       (InService(r) /\ r.http.method = "DELETE" /\ r.http.auth = ConsumerBearer
          /\ ~r.verifyThrew)
       => /\ Done(r)
          /\ r.status = 403
          /\ r.dbOps = 0
          /\ r.writes = 0

C6_Witness ==
    \E s \in Slots :
       /\ Done(reqs[s]) /\ reqs[s].http.method = "DELETE"
       /\ reqs[s].http.auth = ConsumerBearer
       /\ reqs[s].status = 403
       /\ \E d \in store : d.placeId = reqs[s].http.path

\* The bearer-protected endpoints, and the requests that fail authentication.
Protected(http) ==
    \/ (http.method = "POST" /\ http.path = "register")
    \/ http.method = "DELETE"

Unauthenticated(r) ==
    \/ r.http.auth.scheme # "Bearer"
    \/ r.http.auth.token = "garbage"
    \/ r.verifyThrew

\* C7: on POST register and DELETE place, a request without an Authorization
\* header, with a header that is not a Bearer one, or with a token that fails
\* verification (its verification throwing included) is answered 401, next
\* is never called, and neither persistence nor a provider is touched.
C7_AuthFailureAnswers401 ==
    \A s \in Slots :
       LET r == reqs[s] IN
       (InService(r) /\ Protected(r.http) /\ Unauthenticated(r))
       => /\ Done(r)
          /\ r.status = 401
          /\ ~r.nextCalled
          /\ r.dbOps = 0
          /\ r.provCalls = 0
          /\ r.genCalls = 0
          /\ r.writes = 0

C7_Witness ==
    \E s \in Slots :
       /\ Done(reqs[s]) /\ Protected(reqs[s].http)
       /\ reqs[s].http.auth.scheme = "Bearer" /\ reqs[s].http.auth.token = "consumer"
       /\ reqs[s].verifyThrew
       /\ reqs[s].status = 401
       /\ store # {}

\* C8: GET /places/search is served by the search handler: answered 200 with
\* a list when it carries a query or both lat and lng, 400 when it carries
\* neither, and never answered as a lookup by id.
C8_SearchServedBySearchHandler ==
    \A s \in Slots :
       LET r == reqs[s] IN
       (InService(r) /\ r.http.mount = "places" /\ r.http.method = "GET"
          /\ r.http.path = "search")
       => /\ r.handler = "search"
          /\ (Done(r) /\ "providerThrew" \notin r.env)
             => r.status = IF r.http.query \in {"query", "latlng"} THEN 200 ELSE 400
          /\ (Done(r) /\ r.status = 200) => r.body.list

MapperDone == mapperOut.phase = "done" /\ mapperIn.schema # "ai" /\ ~mapperOut.threw

\* The photos of a raw record that the new mapper keeps, in order.
KeptPhotos(ps) == SelectSeq(ps, LAMBDA p : p.name # <<>> /\ p.widthPx # 0)

CappedAt800(w) == IF w > 800 THEN 800 ELSE w

\* C9: with a resolver present, every photo that has a reference and a width
\* is resolved with min(width, 800) - 800 when the source is wider, the
\* source width otherwise - and the Asset photo stores the source width.
C9_ResolverWidthCapped ==
    (MapperDone /\ mapperIn.googleMapsService)
    => IF mapperIn.schema = "new"
       THEN IsSome(mapperIn.place.photos)
            => LET kept == KeptPhotos(Val(mapperIn.place.photos))
                   out == Val(Val(mapperOut.asset).photos)
               IN /\ Len(out) = Len(kept)
                  /\ \A i \in 1..Len(out) :
                        /\ out[i].widthPx = kept[i].widthPx
                        /\ IsSome(out[i].photoUrl)
                        /\ Val(out[i].photoUrl).maxwidth = CappedAt800(kept[i].widthPx)
       ELSE IsSome(mapperIn.legacyPlace.photos)
            => LET raw == Val(mapperIn.legacyPlace.photos)
                   out == Val(mapperOut.legacyAsset).photos
               IN /\ Len(out) = Len(raw)
                  /\ \A i \in 1..Len(out) :
                        /\ out[i].width = raw[i].width
                        /\ (raw[i].photo_reference # "" /\ raw[i].width > 0)
                           => /\ IsSome(out[i].photoUri)
                              /\ Val(out[i].photoUri).maxwidth = CappedAt800(raw[i].width)

C9_Witness ==
    /\ MapperDone /\ mapperIn.googleMapsService /\ mapperIn.schema = "new"
    /\ IsSome(Val(mapperOut.asset).photos)
    /\ \E i \in 1..Len(Val(Val(mapperOut.asset).photos)) :
          LET p == Val(Val(mapperOut.asset).photos)[i] IN
          /\ p.widthPx = MaxWidth
          /\ IsSome(p.photoUrl)
          /\ Val(p.photoUrl).maxwidth = 800

\* A flag that is absent or null stays undefined, and false comes only from false.
FlagPreserved(in, out) ==
    /\ in \in {Null, Undefined} => out = Undefined
    /\ out = "false" => in = "false"

GroupPreserved(in, out) ==
    IsSome(in) => /\ IsSome(out)
                  /\ \A f \in DOMAIN Val(in) : FlagPreserved(Val(in)[f], Val(out)[f])

\* C10: an optional boolean feature flag (parking, payment, accessibility,
\* the wheelchair-accessible entrance of either schema included) that is
\* absent or null in the raw record is undefined on the mapped Asset, never
\* false; a flag is false on the Asset only when the record carried false.
C10_AbsentFlagsStayUndefined ==
    MapperDone
    => IF mapperIn.schema = "new"
       THEN /\ GroupPreserved(mapperIn.place.parkingOptions,
                              Val(mapperOut.asset).parkingOptions)
            /\ GroupPreserved(mapperIn.place.paymentOptions,
                              Val(mapperOut.asset).paymentOptions)
            /\ GroupPreserved(mapperIn.place.accessibilityOptions,
                              Val(mapperOut.asset).accessibilityOptions)
       ELSE FlagPreserved(mapperIn.legacyPlace.wheelchair_accessible_entrance,
                          Val(mapperOut.legacyAsset).wheelchairAccessibleEntrance)

\* -------------------------------------------------------------------- C11
\* An answered /auth request of the given kind that met no internal failure.
AuthDone(r, kind) == r.pc = "done" /\ r.kind = kind /\ r.env = {} /\ ~r.raced

\* The request carried fields the registration validator accepts.
ValidRegistration(r) == UserRegistrationValidator(r.input) = <<>>

\* No two users share an email, compared case-insensitively.
EmailsUnique ==
    \A u, v \in users :
       (u.email # <<>> /\ toLowerCase(u.email) = toLowerCase(v.email)) => u = v

\* C11: a valid register request whose email already belongs to a user is
\* answered 409 and creates no user; one with a new email and valid fields is answered
\* 201 with a token and a user object without a password field; no two users
\* ever share an email.
C11_RegisterContract ==
    /\ EmailsUnique
    /\ \A s \in Slots :
          LET r == authReqs[s] IN
          (AuthDone(r, "register") /\ r.input.email # <<>>) =>
             /\ (r.existed /\ ValidRegistration(r)) => (r.status = 409 /\ r.writes = 0)
             /\ (~r.existed /\ ValidRegistration(r) /\ r.status # 409) =>
                   /\ r.status = 201
                   /\ IsSome(r.body.token)
                   /\ IsSome(r.body.user)
                   /\ "password" \notin DOMAIN Val(r.body.user)

\* The version of auth.routes.ts that keeps its users in MongoDB meets C11.
C11_JwtRegisterContract == app = "jwt" => C11_RegisterContract

\* -------------------------------------------------------------------- C12
\* A login of the MongoDB/JWT version whose fields passed the validators.
JwtLoginDone(r) ==
    /\ app = "jwt"
    /\ AuthDone(r, "login")
    /\ EmailValidator(r.input) = <<>>
    /\ PasswordValidator(r.input) = <<>>

\* No user has the email of the request (users are never removed, so none
\* had it when the handler looked).
UnknownEmail(r) == ~EmailTaken(r.input.email)

\* The email belonged to a user when the request arrived and the password is
\* not that user's.
KnownEmailWrongPassword(r) ==
    /\ r.existed
    /\ \A u \in users :
          u.email = toLowerCase(r.input.email) =>
             ~BcryptCompare(r.input.password, u.password)

EmptyAiFields(d) ==
    /\ d.aiDescription = <<>>
    /\ d.aiTags = <<>>
    /\ d.category = Undefined

\* A register request of gplace.routes.ts that has created its Asset and has
\* not attached AI content to it: generation or the update is in flight, or
\* the request ended in a failure after the create step.
BetweenPhases(r) ==
    /\ r.handler = "registerAsset"
    /\ IsSome(r.held)
    /\ Val(r.held)._id # 0
    /\ \/ r.pc \in {"gen", "update"}
       \/ r.pc = "done" /\ r.status = 500

\* The step in which GET /:externalId of asset.routes.ts gets its lookup back
\* without a database failure.
GetAssetAnswered(s) ==
    /\ reqs[s].handler = "getAsset"
    /\ reqs[s].pc = "getFind"
    /\ reqs'[s].pc = "done"
    /\ "dbFail" \notin reqs'[s].env

\* C13: an Asset that was created and has no AI content (yet, or ever) is
\* stored with empty AI fields, and a GET of its external id is answered 200
\* with that Asset, never 404 or 202.
C13_PartialAssetVisible ==
    [][/\ \A t \in Slots :
             BetweenPhases(reqs[t]) =>
                (Val(reqs[t].held) \in store /\ EmptyAiFields(Val(reqs[t].held)))
       /\ \A s \in Slots :
             GetAssetAnswered(s) =>
                \A d \in store :
                   d.externalId = reqs[s].http.path =>
                      (reqs'[s].status = 200 /\ reqs'[s].body.doc = Some(d))]_vars

\* A GET answered 200 with an Asset whose AI fields are empty while the
\* registration that created it is still generating.
C13_Witness ==
    \E s, t \in Slots :
       /\ reqs[s].handler = "getAsset"
       /\ Done(reqs[s])
       /\ reqs[s].status = 200
       /\ BetweenPhases(reqs[t])
       /\ reqs[t].pc = "gen"
       /\ reqs[s].body.doc = reqs[t].held
       /\ EmptyAiFields(Val(reqs[s].body.doc))

\* -------------------------------------------------------------------- C14
\* The registrations that write in two phases, and the single-phase one.
TwoPhase(r) == r.handler \in {"registerPlace", "registerAsset"}

SinglePhase(r) == r.handler = "registerGPlace"

\* The AI fields a document is created with: empty in the two-phase flows,
\* what the request generated in the single-phase flow.
CreatedAiFields(r, d) ==
    IF SinglePhase(r)
    THEN d.aiDescription = r.aiDescription /\ d.aiTags = r.aiTags
    ELSE d.aiDescription = <<>> /\ d.aiTags = <<>>

\* The step of slot s adds one document, under a new _id and a new key.
CreatedBy(s) ==
    \E d \in store' \ store :
       /\ store' = store \cup {d}
       /\ \A e \in store : e._id # d._id /\ KeyOf(e) # KeyOf(d)
       /\ reqs[s].pc = "create"
       /\ reqs[s].writes = 0
       /\ reqs'[s].writes = 1
       /\ reqs'[s].held = Some(d)
       /\ CreatedAiFields(reqs[s], d)

\* The step of slot s rewrites the document that slot created, for the first
\* time since its creation, keeping its _id and key.
AttachedBy(s) ==
    \E old \in store, new \in store' :
       /\ store' = (store \ {old}) \cup {new}
       /\ new._id = old._id
       /\ KeyOf(new) = KeyOf(old)
       /\ TwoPhase(reqs[s])
       /\ reqs[s].pc = "update"
       /\ reqs[s].held = Some(old)
       /\ reqs[s].writes = 1
       /\ reqs'[s].writes = 2

\* The step is taken by a register request.
RegisterStep(s) == reqs'[s] # reqs[s] /\ IsRegister(reqs[s])

\* C14 (as the code has it): under register requests an Asset is created
\* exactly once, with empty AI fields in the two-phase flows and with its AI
\* fields attached in the single-phase flow; it is written at most once more,
\* by the registration that created it and only in the two-phase flows; no
\* other request writes to it.
C14_CreatedOnceWrittenAtMostOnceMore ==
    [][\A s \in Slots :
          (RegisterStep(s) /\ store' # store) => (CreatedBy(s) \/ AttachedBy(s))]_vars

\* A later register request was answered with the stored Asset, AI content
\* attached, and wrote nothing.
C14_Witness ==
    \E s \in Slots :
       /\ Done(reqs[s])
       /\ reqs[s].handler = "registerAsset"
       /\ reqs[s].status = 200
       /\ reqs[s].writes = 0
       /\ IsSome(reqs[s].body.doc)
       /\ Val(reqs[s].body.doc) \in store
       /\ Val(reqs[s].body.doc).aiDescription # <<>>

\* C14 (as stated): every registration that created an Asset wrote it exactly
\* once more.
C14_WrittenExactlyOnceMore ==
    \A s \in Slots :
       LET r == reqs[s] IN
       (Done(r) /\ IsRegister(r) /\ r.writes >= 1) =>
          r.writes = 2

\* -------------------------------------------------------------------- C15
\* A generatePrompt call has been made.
PromptGenerated == promptOut.call = "generatePrompt"

\* C15: generatePrompt fails with "Unsupported request type" for every type
\* that is not registered, and succeeds for the built-in types and for every
\* type addRequestType has registered.
C15_UnregisteredTypeRejected ==
    PromptGenerated =>
       /\ ~promptOut.registered =>
             (promptOut.result.threw /\ promptOut.result.error = "Unsupported request type")
       /\ promptOut.registered =>
             (~promptOut.result.threw /\ promptOut.result.requestType = promptOut.requestType)

\* The registered types are served as the claim says.
C15_RegisteredTypesServed ==
    (PromptGenerated /\ promptOut.registered) =>
       (~promptOut.result.threw /\ promptOut.result.requestType = promptOut.requestType)

\* -------------------------------------------------------------------- C16
\* A user registration whose fields the validator rejects.
InvalidRegistration(r) ==
    /\ r.pc # "idle"
    /\ r.kind = "register"
    /\ UserRegistrationValidator(r.input) # <<>>

\* The fields named by a list of validation errors.
ErrorFields(errors) == {errors[i].field : i \in 1..Len(errors)}

\* C16: a user registration with missing or malformed fields is answered 400
\* with one error entry per failing field; the route handler is not invoked
\* and neither persistence nor the identity provider is touched.
C16_InvalidRequestRejected ==
    \A s \in Slots :
       LET r == authReqs[s] IN
       InvalidRegistration(r) =>
          /\ ~r.handlerCalled
          /\ r.dbOps = 0
          /\ r.provCalls = 0
          /\ r.writes = 0
          /\ r.pc = "done"
          /\ r.status = 400
          /\ r.body.errors = UserRegistrationValidator(r.input)
          /\ Cardinality(ErrorFields(r.body.errors)) = Len(r.body.errors)

\* The version of auth.routes.ts that validates its requests meets C16.
C16_JwtInvalidRequestRejected == app = "jwt" => C16_InvalidRequestRejected

\* The register handlers of the places and asset APIs reject a request
\* without placeId, once authenticated, before touching anything.
C16_PlaceIdRequired ==
    \A s \in Slots :
       LET r == reqs[s] IN
       (InService(r) /\ IsRegister(r) /\ r.nextCalled /\ PlaceIdValidator(r.http) # <<>>) =>
          /\ Done(r)
          /\ r.status = 400
          /\ r.body.errors = <<"placeId">>
          /\ r.dbOps = 0 /\ r.provCalls = 0 /\ r.genCalls = 0 /\ r.writes = 0

\* -------------------------------------------------------------------- C17
\* An answered /auth request that met an internal error.
MetInternalError(r) == r.pc = "done" /\ r.env # {}

\* Two requests that differ at most in the message of the internal error.
SameRun(r, q) == r.kind = q.kind /\ r.input = q.input /\ r.env = q.env

\* C17: an internal error is answered 500 with a generic message: the body
\* carries neither the error's message nor its stack, and two runs of the same
\* request that differ only in the internal error's message get the same body.
C17_InternalErrorGeneric ==
    /\ \A s \in Slots :
          LET r == authReqs[s] IN
          MetInternalError(r) =>
             /\ r.status = 500
             /\ r.body.error # r.errMsg
             /\ r.body.stack = Undefined
    /\ \A s, t \in Slots :
          (MetInternalError(authReqs[s]) /\ MetInternalError(authReqs[t])
           /\ SameRun(authReqs[s], authReqs[t])) =>
             authReqs[s].body = authReqs[t].body

\* The version of auth.routes.ts with its own catch blocks meets C17.
C17_JwtInternalErrorGeneric == app = "jwt" => C17_InternalErrorGeneric

\* -------------------------------------------------------------------- C18
\* C18: a registration request one of whose persistence operations (existence
\* check, create, update of the AI content) failed is answered 500, never
\* with a success status.
C18_PersistenceFailureAnswers500 ==
    \A s \in Slots :
       LET r == reqs[s] IN
       (Done(r) /\ IsRegister(r) /\ "dbFail" \in r.env) => r.status = 500

\* The register handlers of the asset APIs answer 500 for every persistence
\* failure.
C18_AssetPersistenceFailureAnswers500 ==
    \A s \in Slots :
       LET r == reqs[s] IN
       (Done(r) /\ r.handler \in {"registerAsset", "registerGPlace"} /\ "dbFail" \in r.env)
          => r.status = 500

\* -------------------------------------------------------------------- C19
\* A register request of gplace.routes.ts that received a provider record
\* with a location and met no failure of the database, the provider or the
\* generation, and no other registration of the same place.
LocatedRecordRegistered(r) ==
    /\ Done(r)
    /\ r.handler = "registerAsset"
    /\ IsSome(r.raw)
    /\ IsSome(Val(r.raw).location)
    /\ r.env = {}
    /\ "duplicate" \notin r.errs

\* C19: only a missing location makes normalization fail. For a provider
\* record with a location, whatever other fields are absent, the mapper does
\* not throw and the create step persists the Asset.
C19_OnlyLocationRequired ==
    \A s \in Slots :
       LET r == reqs[s] IN
       LocatedRecordRegistered(r) =>
          /\ ~MapperThrows(r)
          /\ r.writes >= 1
          /\ r.status = 200

\* The mapper part of C19 for records without photos: a record with a
\* location is mapped without throwing, whatever else is absent.
C19_MapperAcceptsLocatedRecord ==
    (mapperOut.phase = "done" /\ mapperIn.schema = "new"
     /\ IsSome(mapperIn.place.location) /\ ~IsSome(mapperIn.place.photos))
       => ~mapperOut.threw

\* -------------------------------------------------------------------- C20
\* C20: the mapped price level equals the raw one when the raw value is one
\* of the five recognised values, and is undefined for every other raw value:
\* the UNSPECIFIED sentinel, an absent value, an unrecognised value.
C20_PriceLevelRecognisedOrOmitted ==
    (MapperDone /\ mapperIn.schema = "new") =>
       Val(mapperOut.asset).priceLevel =
          IF mapperIn.place.priceLevel \in RecognisedPriceLevels
          THEN mapperIn.place.priceLevel
          ELSE Undefined

\* What the new-schema mapper does: the sentinel, an absent value and the
\* empty string are omitted, every other raw value is passed through.
C20_PriceLevelPassedThrough ==
    (MapperDone /\ mapperIn.schema = "new") =>
       Val(mapperOut.asset).priceLevel =
          IF mapperIn.place.priceLevel \in {"PRICE_LEVEL_UNSPECIFIED", Undefined, Null, ""}
          THEN Undefined
          ELSE mapperIn.place.priceLevel

\* The legacy mapper copies price_level as it is.
C20_LegacyPriceLevelCopied ==
    (MapperDone /\ mapperIn.schema = "legacy") =>
       Val(mapperOut.legacyAsset).priceLevel = mapperIn.legacyPlace.price_level

\* The raw photos that carry a reference, in input order.
WithReference(ps, schema) ==
    IF schema = "new"
    THEN SelectSeq(ps, LAMBDA p : p.name # <<>>)
    ELSE SelectSeq(ps, LAMBDA p : p.photo_reference # "")

\* C21: the output photo list is the input photo list with exactly the
\* photos lacking a reference removed, in input order, and no output photo
\* has an empty reference - for the new mapper and for the legacy mapper.
C21_PhotosFilteredByReference ==
    MapperDone
    => IF mapperIn.schema = "new"
       THEN IsSome(mapperIn.place.photos)
            => LET kept == WithReference(Val(mapperIn.place.photos), "new")
                   out == Val(Val(mapperOut.asset).photos)
               IN /\ Len(out) = Len(kept)
                  /\ \A i \in 1..Len(out) :
                        out[i].name = kept[i].name /\ out[i].name # <<>>
       ELSE IsSome(mapperIn.legacyPlace.photos)
            => LET kept == WithReference(Val(mapperIn.legacyPlace.photos), "legacy")
                   out == Val(mapperOut.legacyAsset).photos
               IN /\ Len(out) = Len(kept)
                  /\ \A i \in 1..Len(out) :
                        /\ out[i].photoReference = kept[i].photo_reference
                        /\ out[i].photoReference # ""

\* The part of C21 the new mapper keeps: its output is the photos with a
\* name and a width, in input order, none with an empty name.
C21_NewMapperKeepsOrder ==
    (MapperDone /\ mapperIn.schema = "new" /\ IsSome(mapperIn.place.photos))
    => LET kept == KeptPhotos(Val(mapperIn.place.photos))
           out == Val(Val(mapperOut.asset).photos)
       IN /\ Len(out) = Len(kept)
          /\ \A i \in 1..Len(out) : out[i].name = kept[i].name /\ out[i].name # <<>>

\* The part of C21 the legacy mapper breaks on its own.
C21_LegacyMapperFilters ==
    (MapperDone /\ mapperIn.schema = "legacy" /\ IsSome(mapperIn.legacyPlace.photos))
    => \A i \in 1..Len(Val(mapperOut.legacyAsset).photos) :
          Val(mapperOut.legacyAsset).photos[i].photoReference # ""

\* The part of C21 the new mapper breaks on its own: a photo with a name is kept.
C21_NewMapperKeepsNamed ==
    (MapperDone /\ mapperIn.schema = "new" /\ IsSome(mapperIn.place.photos))
    => Len(Val(Val(mapperOut.asset).photos))
          = Len(WithReference(Val(mapperIn.place.photos), "new"))

\* An opening-hours period end that carries day, hour and minute as numbers.
CompleteEnd(end) ==
    /\ {"day", "hour", "minute"} \subseteq DOMAIN end
    /\ \A f \in {"day", "hour", "minute"} : end[f] \in Nat

\* The raw value of a sub-field of a period end, 0 when it or the end is absent.
RawOrZero(end, f) == IF IsSome(end) /\ IsSome(Val(end)[f]) THEN Val(Val(end)[f]) ELSE 0

\* C22 for the new mapper: every period of regularOpeningHours has an open
\* and a close end with day, hour and minute, each the raw value or 0.
C22_NewPeriodsComplete ==
    (MapperDone /\ mapperIn.schema = "new" /\ IsSome(Val(mapperOut.asset).regularOpeningHours))
    => LET out == Val(Val(mapperOut.asset).regularOpeningHours).periods
           rawp == Val(mapperIn.place.regularOpeningHours).periods
       IN /\ Len(out) = IF IsSome(rawp) THEN Len(Val(rawp)) ELSE 0
          /\ \A i \in 1..Len(out) :
                /\ CompleteEnd(out[i].open) /\ CompleteEnd(out[i].close)
                /\ \A f \in {"day", "hour", "minute"} :
                      /\ out[i].open[f] = RawOrZero(Val(rawp)[i].open, f)
                      /\ out[i].close[f] = RawOrZero(Val(rawp)[i].close, f)

C22_NewWitness ==
    /\ MapperDone /\ mapperIn.schema = "new"
    /\ IsSome(Val(mapperOut.asset).regularOpeningHours)
    /\ \E i \in 1..Len(Val(Val(mapperOut.asset).regularOpeningHours).periods) :
          /\ ~IsSome(Val(Val(mapperIn.place.regularOpeningHours).periods)[i].close)
          /\ Val(Val(mapperOut.asset).regularOpeningHours).periods[i].close
                = [day |-> 0, hour |-> 0, minute |-> 0]

\* C22: every opening-hours period of a mapped Asset, from either mapper,
\* has an open and a close end, each carrying day, hour and minute as
\* numbers (0 when the raw period lacks them); the mapper does not fail on a
\* period that lacks an end.
C22_PeriodsComplete ==
    /\ C22_NewPeriodsComplete
    /\ (mapperOut.phase = "done" /\ mapperIn.schema = "legacy"
          /\ IsSome(mapperIn.legacyPlace.geometry)
          /\ IsSome(Val(mapperIn.legacyPlace.geometry).location))
       => /\ ~mapperOut.threw
          /\ LET oh == Val(mapperOut.legacyAsset).openingHours
             IN (IsSome(oh) /\ IsSome(Val(oh).periods))
                => \A i \in 1..Len(Val(Val(oh).periods)) :
                      LET p == Val(Val(oh).periods)[i]
                      IN /\ CompleteEnd(p.open)
                         /\ IsSome(p.close) /\ CompleteEnd(Val(p.close))

\* The legacy part of C22 for a period that has both ends and both days.
C22_LegacyCompletePeriod ==
    (mapperOut.phase = "done" /\ ~mapperOut.threw /\ mapperIn.schema = "legacy")
    => LET oh == Val(mapperOut.legacyAsset).openingHours
       IN (IsSome(oh) /\ IsSome(Val(oh).periods))
          => \A i \in 1..Len(Val(Val(oh).periods)) :
                LET raw == Val(Val(Val(mapperIn.legacyPlace.opening_hours).periods)[i].open)
                IN (IsSome(raw.day) /\ raw.time # Undefined)
                   => CompleteEnd(Val(Val(oh).periods)[i].open)

\* The last call is a generatePrompt with the asset and request type of the
\* remembered one.
SameCallAsRemembered ==
    /\ PromptGenerated
    /\ IsSome(promptOut.remembered)
    /\ Val(promptOut.remembered).asset = promptOut.asset
    /\ Val(promptOut.remembered).requestType = promptOut.requestType

\* C23: for a registered request type generatePrompt returns the one fixed
\* system message, and it returns the same (system, user) pair as an earlier
\* call with the same Asset and request type, whatever calls were made in
\* between that did not register that type again.
C23_PromptDeterministic ==
    (PromptGenerated /\ promptOut.registered)
    => /\ ~promptOut.result.threw
       /\ promptOut.result.systemMessage = "PlaceDescriber"
       /\ SameCallAsRemembered => Val(promptOut.remembered).result = promptOut.result

\* A type registered at run time is generated twice with other calls in between,
\* one of them a registration of another type.
C23_Witness ==
    /\ SameCallAsRemembered /\ promptOut.registered
    /\ promptOut.requestType = "summary"
    /\ Val(promptOut.remembered).since = 2
    /\ Val(promptOut.remembered).result = promptOut.result
    /\ ~promptOut.result.threw
    /\ IsSome(REQUEST_CONFIGS.proto)

\* The variables config/env.config.ts reads with getRequiredEnv.
RequiredEnv == {"MONGODB_URI", "JWT_SECRET", "GOOGLE_MAPS_API_KEY", "OPENAI_API_KEY"}

\* The API keys of the generation providers.
GenerationKeys == {"OPENAI_API_KEY", "DEEPSEEK_API_KEY"}

C24_EnvConfigFatal ==
    /\ (\E k \in RequiredEnv : proc.env[k] # "set") => proc.phase # "listening"
    /\ (\A k \in RequiredEnv : proc.env[k] = "set") => proc.phase # "crashed"
    /\ proc.phase = "crashed" => (proc.error \in RequiredEnv /\ proc.env[proc.error] # "set")

C24_EnvConfigWitness ==
    /\ proc.phase = "listening"
    /\ \A k \in {"PORT", "NODE_ENV", "JWT_EXPIRATION", "LOG_LEVEL"} : proc.env[k] = "unset"
    /\ Val(proc.config).PORT = "3000"

\* A register request for place id p that got past authentication and
\* validation, has been answered, met no failure of the database or of a
\* provider, and, when it fetched the place, was given the complete record of p.
CleanRegister(r, p) ==
    /\ Done(r) /\ IsRegister(r) /\ r.http.placeId = p /\ r.dbOps > 0
    /\ r.env = {}
    /\ IsSome(r.raw) => Val(r.raw) = IF r.handler = "registerAsset"
                                     THEN GooglePlace(p, PresentLocation)
                                     ELSE GooglePlaceDetails(p, PresentGeometry)

\* C25: two register requests for the same place id, in any interleaving,
\* are both answered with a success status and the Asset of that id, and
\* the store holds exactly one Asset with that id.
C25_ConcurrentRegisterBothSucceed ==
    \A s, t \in Slots : \A p \in RequestIds :
       (s # t /\ CleanRegister(reqs[s], p) /\ CleanRegister(reqs[t], p))
       => /\ \A r \in {reqs[s], reqs[t]} :
                /\ r.status \in {200, 201}
                /\ IsSome(r.body.doc) /\ KeyOf(Val(r.body.doc)) = p
          /\ Cardinality({d \in store : KeyOf(d) = p}) = 1

\* The store part of C25: whatever the interleaving, the unique index keeps
\* at most one Asset per place id in the store.
C25_AtMostOnePerKey ==
    \A p \in PlaceIds \cup {""} : Cardinality({d \in store : KeyOf(d) = p}) <= 1

\* Two register requests for the same place id were both past the existence
\* check before either create was answered, and both have been answered.
C25_Witness ==
    \E s, t \in Slots :
       /\ s # t
       /\ CleanRegister(reqs[s], "p1") /\ CleanRegister(reqs[t], "p1")
       /\ IsSome(reqs[s].raw) /\ IsSome(reqs[t].raw)
       /\ Cardinality({d \in store : KeyOf(d) = "p1"}) = 1

\* C25 for the interleavings in which both requests pass the existence
\* check before either has created the Asset: both are answered with a
\* success status and the Asset, and the store holds exactly one Asset.
C25_RacingRegistersBothSucceed ==
    \A s, t \in Slots : \A p \in RequestIds :
       (s # t /\ CleanRegister(reqs[s], p) /\ CleanRegister(reqs[t], p)
          /\ IsSome(reqs[s].raw) /\ IsSome(reqs[t].raw))
       => /\ \A r \in {reqs[s], reqs[t]} :
                /\ r.status \in {200, 201}
                /\ IsSome(r.body.doc) /\ KeyOf(Val(r.body.doc)) = p
          /\ Cardinality({d \in store : KeyOf(d) = p}) = 1

AiContentDone == mapperOut.phase = "done" /\ mapperIn.schema = "ai"

\* C26: generateAiContent never throws; when both calls succeed it returns
\* both generated values, and when at least one fails it returns the empty
\* description and the empty tag list.
C26_AllOrNothing ==
    AiContentDone
    => /\ ~mapperOut.threw
       /\ IF mapperIn.description.threw \/ mapperIn.tags.threw
          THEN mapperOut.content = [description |-> <<>>, tags |-> <<>>]
          ELSE mapperOut.content =
                  [description |-> generateAssetDescription(mapperIn.description).value,
                   tags |-> generateTags(mapperIn.tags).value]

\* The tag call threw, the description call answered a text, and both values are empty.
C26_Witness ==
    /\ AiContentDone
    /\ mapperIn.tags.threw /\ ~mapperIn.description.threw
    /\ generateAssetDescription(mapperIn.description).value # <<>>
    /\ mapperOut.content = [description |-> <<>>, tags |-> <<>>]

\* How far a register handler has got: the existence check, the provider
\* fetch, createPlace's own check, the create, the generation calls, the
\* update, the answer. The single-phase handler generates before it creates.
RegisterRank(r) ==
    CASE r.pc = "find" -> 1
      [] r.pc = "fetch" -> 2
      [] r.pc = "createFind" -> 3
      [] r.pc = "create" -> IF r.handler = "registerGPlace" THEN 6 ELSE 4
      [] r.pc = "gen" -> IF r.handler = "registerGPlace" THEN 3 ELSE 5
      [] r.pc = "update" -> 6
      [] r.pc = "done" -> 7
      [] OTHER -> 0

\* The step of slot s in which a register handler moves on.
RegisterMoves(s) ==
    /\ IsRegister(reqs[s]) /\ InService(reqs[s])
    /\ reqs'[s] # reqs[s] /\ reqs'[s].pc # "idle"

\* C27: no retries. Every step of a register request takes the handler
\* forward, so the provider fetch, the generation calls, the create and the
\* update are each issued at most once whatever their outcomes; and a request
\* whose existence check finds the Asset is answered without any of them.
C27_NoRetries ==
    [][\A s \in Slots :
          RegisterMoves(s)
          => /\ RegisterRank(reqs'[s]) > RegisterRank(reqs[s])
             /\ reqs'[s].provCalls <= 1
             /\ reqs'[s].genCalls <= 2
             /\ reqs'[s].writes <= 2
             /\ reqs'[s].dbOps <= 4
             /\ (reqs[s].pc = "find" /\ reqs'[s].pc = "done" /\ reqs'[s].status # 500)
                => /\ IsSome(reqs'[s].body.doc)
                   /\ reqs'[s].provCalls = 0 /\ reqs'[s].genCalls = 0
                   /\ reqs'[s].writes = 0 /\ reqs'[s].dbOps = 1]_vars

\* A provider fetch that threw was not issued again: the request is answered
\* 500 after one fetch; and another request was answered from the existence
\* check alone.
C27_Witness ==
    \E s, t \in Slots :
       /\ Done(reqs[s]) /\ IsRegister(reqs[s])
       /\ "providerThrew" \in reqs[s].env
       /\ reqs[s].provCalls = 1 /\ reqs[s].status = 500
       /\ Done(reqs[t]) /\ IsRegister(reqs[t])
       /\ IsSome(reqs[t].body.doc) /\ reqs[t].dbOps = 1 /\ reqs[t].provCalls = 0

\* A bcrypt hash, as opposed to a password as a caller supplies it.
IsHashed(password) == Len(password) >= 1 /\ password[1] = "$2b$"

\* C28: after any sequence of UserDAO operations (createUser, updateUser with
\* or without a password, deleteUser) every persisted user's password is a
\* hash, never the plaintext that was supplied.
C28_PasswordsHashed == \A u \in users : IsHashed(u.password)

\* C28, createUser and deleteUser alone: a document keeps a hashed password
\* as long as no update carries a password.
C28_SaveHashes ==
    [][(\A u \in users : IsHashed(u.password)) /\ ~UpdateUser
          => \A u \in users' : IsHashed(u.password)]_vars

\* C28: an update without a password leaves every password as it was.
C28_UpdateWithoutPasswordKeeps ==
    \A u \in users, id \in Ids, first \in {None, Some("Bob")} :
       \E v \in updateUser(users, id, [password |-> None, firstName |-> first]) :
          v._id = u._id /\ v.password = u.password

\* The request of a slot created a document of the store.
FirstRegistered(r) == IsRegister(r) /\ r.writes >= 1 /\ IsSome(r.held)

\* C29: the key the existence check looks up is the key that is stored. The
\* Asset a register(p) request created has external id p, for every answer
\* of the provider, also one whose own id differs from p or is absent.
C29_StoredKeyIsCheckedKey ==
    \A s \in Slots :
       LET r == reqs[s] IN
       FirstRegistered(r) => KeyOf(Val(r.held)) = r.http.placeId

\* The id of the raw record a request received, as the handler stores it.
ProviderKey(r) ==
    IF r.handler = "registerAsset"
    THEN IF Val(r.raw).id \in {Null, Undefined} THEN "" ELSE Val(r.raw).id
    ELSE IF r.handler = "registerGPlace" THEN Val(r.raw).place_id
    ELSE IF Val(r.raw).place_id \in {Undefined, Null, ""} THEN r.http.placeId
    ELSE Val(r.raw).place_id

\* C29, what the code does: the stored key is the id of the provider's
\* record; the requested id is only the fallback of the legacy getEntity.
C29_StoredKeyIsProviderId ==
    \A s \in Slots :
       LET r == reqs[s] IN
       FirstRegistered(r) => IsSome(r.raw) /\ KeyOf(Val(r.held)) = ProviderKey(r)

\* C29: an Asset is stored under an id other than the requested one, and a
\* later existence check for the requested id misses it.
C29_Mismatch ==
    \E s \in Slots :
       /\ FirstRegistered(reqs[s])
       /\ Val(reqs[s].held) \in store
       /\ KeyOf(Val(reqs[s].held)) # reqs[s].http.placeId
       /\ ~IsSome(findByExternalId(store, reqs[s].http.placeId))

\* The register handler of the request ran: authentication and validation
\* passed and the existence check, its first await, was issued.
HandlerEntered(r) == IsRegister(r) /\ r.dbOps >= 1

\* Some step of the handler of slot s can be taken.
CanMove(s) ==
    ENABLED (FindDone(s) \/ ProviderDone(s) \/ CreateFindDone(s)
             \/ CreateDone(s) \/ GenDone(s) \/ UpdateDone(s))

\* C30: a register request that passed authentication and validation sends
\* exactly one response, whatever succeeds or fails among the existence
\* check, the fetch, the mapper, the create, the generation calls and the
\* update, in the strict and in the lenient handlers: a request that is over
\* has sent one response with a status, a request that is not over has sent
\* none and has a step left to take.
C30_ExactlyOneResponse ==
    \A s \in Slots :
       LET r == reqs[s] IN
       HandlerEntered(r)
       => IF Done(r) THEN r.sent = 1 /\ r.status # 0
          ELSE r.sent = 0 /\ r.status = 0 /\ CanMove(s)

\* C30: an answered request only leaves; nothing is sent after the response.
C30_NothingAfterResponse ==
    [][\A s \in Slots :
          Done(reqs[s]) /\ reqs'[s] # reqs[s] => reqs'[s] = IdleReq]_vars

\* C30: one request was answered after its update, another was answered 500
\* after its create; each sent one response.
C30_Witness ==
    \E s, t \in Slots :
       /\ HandlerEntered(reqs[s]) /\ Done(reqs[s])
       /\ reqs[s].status \in {200, 201} /\ reqs[s].writes = 2 /\ reqs[s].sent = 1
       /\ HandlerEntered(reqs[t]) /\ Done(reqs[t])
       /\ reqs[t].status = 500 /\ reqs[t].writes >= 1 /\ reqs[t].sent = 1

====
